---------------------------- MODULE Spec2Model ----------------------------
(***************************************************************************)
(* Rule-body-to-relational-algebra compiler of cozo-parser                 *)
(* (src/src/compile/compile.rs): the relation registry, the fold of a rule *)
(* body into a RelAlgebra tree, the elimination pass, the binding-index    *)
(* resolution pass and the join classification used by explain.            *)
(*                                                                         *)
(* Encoding.  A Symbol is compared by name only (its span is dropped), and *)
(* is modelled as an integer so that the BTreeSet order of the code is the *)
(* integer order: user variables are 1..NumVars, the generated name "**k"  *)
(* is k - SynthBase (every "**k" sorts before every user variable, as '*'  *)
(* sorts before letters).  Source spans are not modelled.                  *)
(***************************************************************************)
EXTENDS Integers, Sequences, FiniteSets, TLC

\* ---------------------------------------------------------------- bounds
NumVars == 2        \* user variables available to rule bodies and heads
MaxBody == 3        \* atoms in one rule body
MaxArity == 3       \* columns of a relation that is created or classified

\* ------------------------------------------------------------- encodings
SynthBase == 100    \* "**k" is encoded as k - SynthBase
NoPos == -1         \* tuple_pos: None

Vars == 1..NumVars

Range(s) == {s[i] : i \in DOMAIN s}

NoDup(s) == \A i, j \in DOMAIN s : i # j => s[i] # s[j]

\* the smallest element of a non-empty set of symbols (BTreeSet iteration order)
First(S) == CHOOSE a \in S : \A b \in S : a <= b

\* ------------------------------------------------------------------ Expr
\* compile/expr.rs is not part of the sources; Expr is modelled from its uses
\* in compile.rs and from the specification (top-level conjunction split,
\* set of referenced variables, name -> position resolution).
ExprBinding(v) == [tag |-> "Binding", var |-> v, tuple_pos |-> NoPos]

ExprConst == [tag |-> "Const"]

ExprApply(op, args) == [tag |-> "Apply", op |-> op, args |-> args]

build_equate(args) == ExprApply("eq", args)

build_is_in(args) == ExprApply("is_in", args)

RECURSIVE ExprBindings(_)
ExprBindings(e) ==
    CASE e.tag = "Binding" -> {e.var}
      [] e.tag = "Const" -> {}
      [] e.tag = "Apply" -> UNION {ExprBindings(e.args[i]) : i \in DOMAIN e.args}

FiltersBindings(filters) == UNION {ExprBindings(filters[i]) : i \in DOMAIN filters}

to_conjunction(e) ==
    IF e.tag = "Apply" /\ e.op = "and" THEN e.args ELSE <<e>>

\* variant: positions are counted from one
BindingMap_OneBased(bindings) ==
    [b \in Range(bindings) |-> CHOOSE i \in DOMAIN bindings : bindings[i] = b]

\* collect::<BTreeMap<_, _>>() of (name, position) pairs: a later position wins
BindingMap(bindings) ==
    [b \in Range(bindings) |->
        (CHOOSE i \in DOMAIN bindings :
            bindings[i] = b /\ \A j \in DOMAIN bindings : bindings[j] = b => j <= i) - 1]

RECURSIVE ExprResolvable(_, _)
ExprResolvable(e, map) ==
    CASE e.tag = "Binding" -> e.var \in DOMAIN map
      [] e.tag = "Const" -> TRUE
      [] e.tag = "Apply" -> \A i \in DOMAIN e.args : ExprResolvable(e.args[i], map)

RECURSIVE fill_binding_indices(_, _)
fill_binding_indices(e, map) ==
    CASE e.tag = "Binding" ->
            IF e.var \in DOMAIN map THEN [e EXCEPT !.tuple_pos = map[e.var]] ELSE e
      [] e.tag = "Const" -> e
      [] e.tag = "Apply" ->
            [e EXCEPT !.args = [i \in DOMAIN e.args |-> fill_binding_indices(e.args[i], map)]]

RECURSIVE ExprResolved(_)
ExprResolved(e) ==
    CASE e.tag = "Binding" -> e.tuple_pos # NoPos
      [] e.tag = "Const" -> TRUE
      [] e.tag = "Apply" -> \A i \in DOMAIN e.args : ExprResolved(e.args[i])

\* ------------------------------------------------------------ RelAlgebra
InlineFixedRA_unit ==
    [kind |-> "Fixed", bindings |-> <<>>, data |-> <<<<>>>>, to_eliminate |-> {}]

unit == InlineFixedRA_unit

join(left, right, left_keys, right_keys) ==
    [kind |-> "Join", left |-> left, right |-> right,
     joiner |-> [left_keys |-> left_keys, right_keys |-> right_keys],
     to_eliminate |-> {}]

cartesian_join(left, right) == join(left, right, <<>>, <<>>)

reorder(rel, new_order) ==
    [kind |-> "Reorder", relation |-> rel, new_order |-> new_order]

unify(rel, binding, expr, is_multi) ==
    [kind |-> "Unification", parent |-> rel, binding |-> binding, expr |-> expr,
     is_multi |-> is_multi, to_eliminate |-> {}]

relation(bindings, name) ==
    [kind |-> "Stored", bindings |-> bindings, filters |-> <<>>, name |-> name]

derived(bindings, storage_key) ==
    [kind |-> "TempStore", bindings |-> bindings, storage_key |-> storage_key,
     filters |-> <<>>]

HasEliminateSet(r) == r.kind \in {"Fixed", "Join", "Filter", "Unification"}

eliminate_set(r) == IF HasEliminateSet(r) THEN r.to_eliminate ELSE {}

RECURSIVE bindings_after_eliminate(_), bindings_before_eliminate(_)
bindings_after_eliminate(r) ==
    LET ret == bindings_before_eliminate(r)
    IN  IF HasEliminateSet(r)
        THEN SelectSeq(ret, LAMBDA kw : kw \notin r.to_eliminate)
        ELSE ret

InnerJoin_bindings(j) ==
    bindings_after_eliminate(j.left) \o bindings_after_eliminate(j.right)

bindings_before_eliminate(r) ==
    CASE r.kind = "Fixed" -> r.bindings
      [] r.kind = "TempStore" -> r.bindings
      [] r.kind = "Stored" -> r.bindings
      [] r.kind = "Join" -> InnerJoin_bindings(r)
      [] r.kind = "Reorder" -> r.new_order
      [] r.kind = "Filter" -> bindings_after_eliminate(r.parent)
      [] r.kind = "Unification" ->
            Append(bindings_after_eliminate(r.parent), r.binding)

\* variant: nothing is found unused
Unused_None(bindings, used) == {}

Unused(bindings, used) == {b \in Range(bindings) : b \notin used}

\* variant: the left join keys are not kept for the join
JoinLeftUsed_NoKeys(j, used) ==
    used \cup (IF j.right.kind = "TempStore" THEN FiltersBindings(j.right.filters) ELSE {})

\* the needed set an InnerJoin hands to its left child
JoinLeftUsed(j, used) ==
    used \cup Range(j.joiner.left_keys)
         \cup (IF j.right.kind = "TempStore" THEN FiltersBindings(j.right.filters) ELSE {})

\* the needed set an InnerJoin hands to its right child
JoinRightUsed(j, used) == used \cup Range(j.joiner.right_keys)

\* variant: the variables an expression reads are not kept for it
ParentUsed_Same(r, used) == used

\* the needed set (nxt) a Filter or a Unification hands to its parent
ParentUsed(r, used) ==
    used \cup (IF r.kind = "Filter" THEN FiltersBindings(r.filters)
               ELSE ExprBindings(r.expr))

RECURSIVE eliminate_temp_vars(_, _)
eliminate_temp_vars(r, used) ==
    CASE r.kind = "Fixed" ->
            [r EXCEPT !.to_eliminate = @ \cup Unused(r.bindings, used)]
      [] r.kind = "TempStore" -> r
      [] r.kind = "Stored" -> r
      [] r.kind = "Join" ->
            [r EXCEPT !.to_eliminate = @ \cup Unused(InnerJoin_bindings(r), used),
                      !.left = eliminate_temp_vars(@, JoinLeftUsed(r, used)),
                      !.right = eliminate_temp_vars(@, JoinRightUsed(r, used))]
      [] r.kind = "Reorder" ->
            [r EXCEPT !.relation = eliminate_temp_vars(@, used)]
      [] r.kind = "Filter" ->
            [r EXCEPT !.to_eliminate =
                          @ \cup Unused(bindings_before_eliminate(r.parent), used),
                      !.parent = eliminate_temp_vars(@, ParentUsed(r, used))]
      [] r.kind = "Unification" ->
            [r EXCEPT !.to_eliminate =
                          @ \cup Unused(bindings_before_eliminate(r.parent), used),
                      !.parent = eliminate_temp_vars(@, ParentUsed(r, used))]

FilteredRA(parent, filters) ==
    [kind |-> "Filter", parent |-> parent, filters |-> filters, to_eliminate |-> {}]

\* variant: no clause is pushed under a child of the Join
PushClauses_KeepAll(clauses, left, right, remaining, left_bindings, right_bindings) ==
    [left |-> left, right |-> right, remaining |-> remaining \o clauses]

RECURSIVE filter(_, _), PushClauses(_, _, _, _, _, _)
\* variant: the right child is tried before the left one
RECURSIVE PushClauses_RightFirst(_, _, _, _, _, _)
PushClauses_RightFirst(clauses, left, right, remaining, left_bindings, right_bindings) ==
    IF clauses = <<>> THEN [left |-> left, right |-> right, remaining |-> remaining]
    ELSE LET f == Head(clauses)
             f_bindings == ExprBindings(f)
         IN  IF f_bindings \subseteq right_bindings
             THEN PushClauses_RightFirst(Tail(clauses), left, filter(right, f),
                                         remaining, left_bindings, right_bindings)
             ELSE IF f_bindings \subseteq left_bindings
             THEN PushClauses_RightFirst(Tail(clauses), filter(left, f), right,
                                         remaining, left_bindings, right_bindings)
             ELSE PushClauses_RightFirst(Tail(clauses), left, right,
                                         Append(remaining, f),
                                         left_bindings, right_bindings)

\* the loop over the conjunctive clauses of a filter applied to a Join:
\* state <<left, right, remaining>>, one clause per iteration
PushClauses(clauses, left, right, remaining, left_bindings, right_bindings) ==
    IF clauses = <<>> THEN [left |-> left, right |-> right, remaining |-> remaining]
    ELSE LET f == Head(clauses)
             f_bindings == ExprBindings(f)
         IN  IF f_bindings \subseteq left_bindings
             THEN PushClauses(Tail(clauses), filter(left, f), right, remaining,
                              left_bindings, right_bindings)
             ELSE IF f_bindings \subseteq right_bindings
             THEN PushClauses(Tail(clauses), left, filter(right, f), remaining,
                              left_bindings, right_bindings)
             ELSE PushClauses(Tail(clauses), left, right, Append(remaining, f),
                              left_bindings, right_bindings)

filter(r, f) ==
    CASE r.kind \in {"Fixed", "Reorder", "Unification"} -> FilteredRA(r, <<f>>)
      [] r.kind = "Filter" -> [r EXCEPT !.filters = Append(@, f)]
      [] r.kind \in {"TempStore", "Stored"} -> [r EXCEPT !.filters = Append(@, f)]
      [] r.kind = "Join" ->
            LET p == PushClauses(to_conjunction(f), r.left, r.right, <<>>,
                                 Range(bindings_before_eliminate(r.left)),
                                 Range(bindings_before_eliminate(r.right)))
                joined == [r EXCEPT !.left = p.left, !.right = p.right]
            IN  IF p.remaining # <<>> THEN FilteredRA(joined, p.remaining) ELSE joined


\* resolution of the expressions of a list against a name -> position map
FillFilters(filters, map) ==
    [i \in DOMAIN filters |-> fill_binding_indices(filters[i], map)]

FiltersResolvable(filters, map) ==
    \A i \in DOMAIN filters : ExprResolvable(filters[i], map)

\* whether fill_binding_indices_and_compile returns Ok on the tree
RECURSIVE FillSucceeds(_)
FillSucceeds(r) ==
    CASE r.kind = "Fixed" -> TRUE
      [] r.kind \in {"TempStore", "Stored"} ->
            FiltersResolvable(r.filters, BindingMap(r.bindings))
      [] r.kind = "Reorder" -> FillSucceeds(r.relation)
      [] r.kind = "Filter" ->
            /\ FillSucceeds(r.parent)
            /\ FiltersResolvable(r.filters,
                                 BindingMap(bindings_after_eliminate(r.parent)))
      [] r.kind = "Unification" ->
            /\ FillSucceeds(r.parent)
            /\ ExprResolvable(r.expr, BindingMap(bindings_after_eliminate(r.parent)))
      [] r.kind = "Join" -> FillSucceeds(r.left) /\ FillSucceeds(r.right)

RECURSIVE fill_binding_indices_and_compile(_)
fill_binding_indices_and_compile(r) ==
    CASE r.kind = "Fixed" -> r
      [] r.kind \in {"TempStore", "Stored"} ->
            [r EXCEPT !.filters = FillFilters(@, BindingMap(r.bindings))]
      [] r.kind = "Reorder" ->
            [r EXCEPT !.relation = fill_binding_indices_and_compile(@)]
      [] r.kind = "Filter" ->
            [r EXCEPT !.parent = fill_binding_indices_and_compile(@),
                      !.filters =
                          FillFilters(@, BindingMap(bindings_after_eliminate(r.parent)))]
      [] r.kind = "Unification" ->
            [r EXCEPT !.parent = fill_binding_indices_and_compile(@),
                      !.expr = fill_binding_indices(
                                   @, BindingMap(bindings_after_eliminate(r.parent)))]
      [] r.kind = "Join" ->
            [r EXCEPT !.left = fill_binding_indices_and_compile(@),
                      !.right = fill_binding_indices_and_compile(@)]

\* --------------------------------------------------- structural queries
RECURSIVE Nodes(_)
\* every node of a plan, the root included
Nodes(r) ==
    {r} \cup
    CASE r.kind \in {"Fixed", "TempStore", "Stored"} -> {}
      [] r.kind = "Join" -> Nodes(r.left) \cup Nodes(r.right)
      [] r.kind = "Reorder" -> Nodes(r.relation)
      [] r.kind \in {"Filter", "Unification"} -> Nodes(r.parent)

Joins(r) == {n \in Nodes(r) : n.kind = "Join"}

RECURSIVE CountJoins(_)
CountJoins(r) ==
    CASE r.kind \in {"Fixed", "TempStore", "Stored"} -> 0
      [] r.kind = "Join" -> 1 + CountJoins(r.left) + CountJoins(r.right)
      [] r.kind = "Reorder" -> CountJoins(r.relation)
      [] r.kind \in {"Filter", "Unification"} -> CountJoins(r.parent)

\* ------------------------------------------------------ join classification
RECURSIVE Insert(_, _)
\* x put in its place in the ascending sequence s
Insert(x, s) ==
    IF s = <<>> THEN <<x>>
    ELSE IF x <= Head(s) THEN <<x>> \o s
    ELSE <<Head(s)>> \o Insert(x, Tail(s))

RECURSIVE Sort(_)
\* indices.sort()
Sort(s) == IF s = <<>> THEN <<>> ELSE Insert(Head(s), Sort(Tail(s)))

\* Joiner::join_indices: the positions of the zipped keys in the bindings
join_indices(joiner, left_bindings, right_bindings) ==
    LET left_binding_map == BindingMap(left_bindings)
        right_binding_map == BindingMap(right_bindings)
        n == IF Len(joiner.left_keys) < Len(joiner.right_keys)
             THEN Len(joiner.left_keys) ELSE Len(joiner.right_keys)
    IN  << [i \in 1..n |-> left_binding_map[joiner.left_keys[i]]],
           [i \in 1..n |-> right_binding_map[joiner.right_keys[i]]] >>

\* variant: the indices are compared in the order of the keys
join_is_prefix_Unsorted(right_join_indices) ==
    right_join_indices = [i \in 1..Len(right_join_indices) |-> i - 1]

join_is_prefix(right_join_indices) ==
    LET indices == Sort(right_join_indices)
        l == Len(indices)
    IN  indices = [i \in 1..l |-> i - 1]

InlineFixedRA_join_type(f) ==
    IF Len(f.data) = 0 THEN "null_join"
    ELSE IF Len(f.data) = 1 THEN "singleton_join"
    ELSE "fixed_join"

\* the right join indices InnerJoin::join_type classifies
RightJoinIndices(j) ==
    join_indices(j.joiner, bindings_after_eliminate(j.left),
                 bindings_after_eliminate(j.right))[2]

\* InnerJoin::join_type
join_type(j) ==
    CASE j.right.kind = "Fixed" -> InlineFixedRA_join_type(j.right)
      [] j.right.kind = "TempStore" ->
            IF join_is_prefix(RightJoinIndices(j))
            THEN "mem_prefix_join" ELSE "mem_mat_join"
      [] j.right.kind = "Stored" ->
            IF join_is_prefix(RightJoinIndices(j))
            THEN "stored_prefix_join" ELSE "stored_mat_join"
      [] j.right.kind \in {"Join", "Filter", "Unification"} -> "generic_mat_join"
      [] j.right.kind = "Reorder" -> "panic: joining on reordered"

\* ------------------------------------------------------------- registry
CompiledRelationHandle(id, name, arity) == [id |-> id, name |-> name, arity |-> arity]

EmptyRegistry == [n \in {} |-> 0]

\* the registry after a successful create_relation(name, arity)
RegistryInsert(reg, name, arity) ==
    LET id == Cardinality(DOMAIN reg)
    IN  [n \in DOMAIN reg \cup {name} |->
            IF n = name THEN CompiledRelationHandle(id, name, arity) ELSE reg[n]]

\* variant: a name already registered is registered again
create_relation_Overwrite(reg, name, arity) ==
    [reply |-> [kind |-> "Ok", handle |-> RegistryInsert(reg, name, arity)[name]],
     reg |-> RegistryInsert(reg, name, arity)]

\* Result of create_relation: the reply and the registry afterwards
create_relation(reg, name, arity) ==
    IF name \in DOMAIN reg
    THEN [reply |-> [kind |-> "RelNameConflict", name |-> name], reg |-> reg]
    ELSE LET new == RegistryInsert(reg, name, arity)
         IN  [reply |-> [kind |-> "Ok", handle |-> new[name]], reg |-> new]

\* variant: the lookup reads a map that nothing fills
get_relation_OtherMap(reg, name) == [kind |-> "StoredRelationNotFound", name |-> name]

get_relation(reg, name) ==
    IF name \in DOMAIN reg
    THEN [kind |-> "Ok", handle |-> reg[name]]
    ELSE [kind |-> "StoredRelationNotFound", name |-> name]


\* ------------------------------------------------------ rule-body input
\* A body atom (MagicAtom).  A body is in normal form, as the normalizer and
\* the well-ordering pass hand it over: the arguments of one rule or relation
\* application are pairwise distinct variables, a predicate or unification
\* expression reads only variables bound by earlier atoms, and the head
\* variables are pairwise distinct.
RuleAtom(name, args) == [type |-> "Rule", name |-> name, args |-> args]

RelationAtom(name, args) == [type |-> "Relation", name |-> name, args |-> args]

PredicateAtom(expr) == [type |-> "Predicate", expr |-> expr]

UnificationAtom(binding, expr, one_many_unif) ==
    [type |-> "Unification", binding |-> binding, expr |-> expr,
     one_many_unif |-> one_many_unif]

\* sequences of n pairwise distinct user variables
RECURSIVE DistinctSeqs(_)
DistinctSeqs(n) ==
    IF n = 0 THEN {<<>>}
    ELSE {t \in {Append(s, v) : s \in DistinctSeqs(n - 1), v \in Vars} : NoDup(t)}

ArgSeqs(maxlen) == UNION {DistinctSeqs(n) : n \in 1..maxlen}

\* Bodies are enumerated up to a renaming of their variables: the compiler
\* uses a variable name only through equality (and its order only to choose
\* which unbound head variable an error names), so the variables a body
\* introduces are numbered in the order of their first occurrence.
NewVars(args, seen) == SelectSeq(args, LAMBDA v : v \notin seen)

FirstOccurrenceOrder(args, seen) ==
    \A i \in DOMAIN NewVars(args, seen) : NewVars(args, seen)[i] = Cardinality(seen) + i

\* the stratified program handed to stratified_magic_compile: a sequence of
\* strata, each a map from relation name to the arity of its rule set
Programs ==
    { << [n \in {"is_parent"} |-> 2], [n \in {"mutations"} |-> 1] >> }

\* the derived relations rule bodies apply; "nodes" is defined by no program
RulesInBodies == {"mutations", "nodes"}

\* the stored relations created by main.rs, in its order
StoredCreated == << [name |-> "has_added", arity |-> 2],
                    [name |-> "has_target", arity |-> 2],
                    [name |-> "mutations", arity |-> 1] >>

RECURSIVE RegistryAfter(_)
RegistryAfter(creates) ==
    IF creates = <<>> THEN EmptyRegistry
    ELSE LET c == creates[Len(creates)]
         IN  create_relation(RegistryAfter(SubSeq(creates, 1, Len(creates) - 1)),
                             c.name, c.arity).reg

\* the stored relations rule bodies scan; "ghost" was never created
StoredInBodies == {"has_target", "ghost"}

\* argument lists of up to NumVars pairwise distinct variables
AllArgSeqs == ArgSeqs(NumVars)

RuleAtoms(seen) ==
    {RuleAtom(n, a) : n \in RulesInBodies,
                      a \in {t \in AllArgSeqs : FirstOccurrenceOrder(t, seen)}}

RelationAtoms(seen) ==
    {RelationAtom(n, a) : n \in StoredInBodies,
                          a \in {t \in AllArgSeqs : FirstOccurrenceOrder(t, seen)}}

Gt(v) == ExprApply("gt", <<ExprBinding(v), ExprConst>>)

Lt(a, b) == ExprApply("lt", <<ExprBinding(a), ExprBinding(b)>>)

And(e1, e2) == ExprApply("and", <<e1, e2>>)

Ordered(S) == {q \in S \X S : q[1] < q[2]}

PredicateAtoms(seen) ==
    {PredicateAtom(e) :
        e \in {ExprConst} \cup {Gt(v) : v \in seen}
                \cup {Lt(q[1], q[2]) : q \in Ordered(seen)}
                \cup {And(Gt(q[1]), Gt(q[2])) : q \in Ordered(seen)}}

\* var = constant for a seen or a new variable, var in constant for a new
\* one, and, for a variable w seen, var = w for a new variable and var in w
\* for a seen one
UnificationAtoms(seen) ==
    LET bindings == {v \in Vars : FirstOccurrenceOrder(<<v>>, seen)}
    IN  {UnificationAtom(v, ExprConst, FALSE) : v \in bindings} \cup
        {UnificationAtom(v, ExprConst, TRUE) : v \in bindings \ seen} \cup
        {UnificationAtom(q[1], ExprBinding(q[2]), q[1] \in seen) :
            q \in {t \in bindings \X seen : t[1] # t[2]}}

Heads == DistinctSeqs(0) \cup DistinctSeqs(1) \cup DistinctSeqs(2)

\* ---------------------------------------------------------------- state
VARIABLES
    compiled_relations,  \* Compiler.compiled_relations: name -> handle
    prog,                \* the StratifiedMagicProgram being compiled
    store_arities,       \* stratified_magic_compile: MagicSymbol -> arity
    pc,                  \* "idle", "body", "compiled", "failed"
    body,                \* the atoms of rule.body folded so far
    ret_vars,            \* the head of the rule, read at the head check
    ret,                 \* compile_magic_rule_body: the plan built / returned
    relation_,           \* CompiledRule.relation: the plan with indices resolved
    seen_variables,      \* compile_magic_rule_body: variables seen so far
    serial_id,           \* compile_magic_rule_body: counter of gen_symb
    result,              \* outcome of the last call
    stream               \* a SplitCompoundWordsTokenStream and what was read of it

vars == <<compiled_relations, prog, store_arities, pc, body, ret_vars, ret,
          relation_, seen_variables, serial_id, result, stream>>

\* no token stream has been made
NoStream == [dict |-> {}]

NoResult == [kind |-> "None"]

\* variant: the counter is not read, every name is **0
gen_symb_Zero(id) == 0 - SynthBase

gen_symb(id) == id - SynthBase

\* variant: only the first stratum is collected
CollectArities_FirstStratum(strata) ==
    IF strata = <<>> THEN [n \in {} |-> 0] ELSE strata[1]

\* store_arities as collected from every stratum (a later stratum's entry for
\* a name replaces an earlier one)
RECURSIVE CollectArities(_)
CollectArities(strata) ==
    IF strata = <<>> THEN [n \in {} |-> 0]
    ELSE LET init == CollectArities(SubSeq(strata, 1, Len(strata) - 1))
             last == strata[Len(strata)]
         IN  [n \in DOMAIN init \cup DOMAIN last |->
                 IF n \in DOMAIN last THEN last[n] ELSE init[n]]

\* variant: an argument already seen is scanned under its own name
RECURSIVE ScanArgs_NoRename(_, _, _)
ScanArgs_NoRename(args, seen, id) ==
    IF args = <<>>
    THEN [prev_joiner_vars |-> <<>>, right_joiner_vars |-> <<>>, right_vars |-> <<>>,
          seen |-> seen, id |-> id]
    ELSE LET p == ScanArgs_NoRename(SubSeq(args, 1, Len(args) - 1), seen, id)
             var == args[Len(args)]
         IN  IF var \in p.seen
             THEN [p EXCEPT !.prev_joiner_vars = Append(@, var),
                            !.right_joiner_vars = Append(@, var),
                            !.right_vars = Append(@, var)]
             ELSE [p EXCEPT !.right_vars = Append(@, var), !.seen = @ \cup {var}]

\* the loop over the arguments of a rule or relation application
RECURSIVE ScanArgs(_, _, _)
ScanArgs(args, seen, id) ==
    IF args = <<>>
    THEN [prev_joiner_vars |-> <<>>, right_joiner_vars |-> <<>>, right_vars |-> <<>>,
          seen |-> seen, id |-> id]
    ELSE LET p == ScanArgs(SubSeq(args, 1, Len(args) - 1), seen, id)
             var == args[Len(args)]
         IN  IF var \in p.seen
             THEN LET rk == gen_symb(p.id)
                  IN  [prev_joiner_vars |-> Append(p.prev_joiner_vars, var),
                       right_joiner_vars |-> Append(p.right_joiner_vars, rk),
                       right_vars |-> Append(p.right_vars, rk),
                       seen |-> p.seen, id |-> p.id + 1]
             ELSE [p EXCEPT !.right_vars = Append(@, var), !.seen = @ \cup {var}]

\* variant: the first scan of a body is not joined with unit
JoinScan_SkipUnit(left, scan, p) ==
    IF left = unit THEN scan ELSE join(left, scan, p.prev_joiner_vars, p.right_joiner_vars)

\* variant: the scan becomes the left child and the plan so far the right one
JoinScan_ScanLeft(left, scan, p) ==
    join(scan, left, p.right_joiner_vars, p.prev_joiner_vars)

\* ret after folding the scan of a rule or relation application into it
JoinScan(left, scan, p) == join(left, scan, p.prev_joiner_vars, p.right_joiner_vars)

\* the error checks of a rule application, in the order of the code
RuleAtomError(arities, atom) ==
    IF atom.name \notin DOMAIN arities
    THEN [kind |-> "RuleNotFound", name |-> atom.name]
    ELSE IF arities[atom.name] # Len(atom.args)
    THEN [kind |-> "ArityMismatch", name |-> atom.name,
          expected |-> arities[atom.name], given |-> Len(atom.args)]
    ELSE [kind |-> "Ok"]

\* variant: a stored-relation application is not checked for its arity
RelationAtomError_NoArity(reg, atom) ==
    IF get_relation(reg, atom.name).kind # "Ok"
    THEN get_relation(reg, atom.name) ELSE [kind |-> "Ok"]

\* the error checks of a stored-relation application, in the order of the code
RelationAtomError(reg, atom) ==
    LET store == get_relation(reg, atom.name)
    IN  IF store.kind # "Ok" THEN store
        ELSE IF store.handle.arity # Len(atom.args)
        THEN [kind |-> "ArityMismatch", name |-> atom.name,
              expected |-> store.handle.arity, given |-> Len(atom.args)]
        ELSE [kind |-> "Ok"]

\* compile_magic_rule_body returns Err from inside the loop: its locals are dropped
Fail(r, atom) ==
    /\ pc' = "failed"
    /\ result' = [kind |-> r.kind, error |-> r, atom |-> atom]
    /\ body' = <<>>
    /\ ret' = unit
    /\ seen_variables' = {}
    /\ serial_id' = 0
    /\ UNCHANGED <<compiled_relations, prog, store_arities, ret_vars, relation_>>
    /\ UNCHANGED stream

Folded(atom, new_ret, new_seen, new_id) ==
    /\ body' = Append(body, atom)
    /\ ret' = new_ret
    /\ seen_variables' = new_seen
    /\ serial_id' = new_id
    /\ UNCHANGED <<compiled_relations, prog, store_arities, pc, ret_vars, relation_,
                   result>>
    /\ UNCHANGED stream

\* ------------------------------------------------------------- actions
\* the loop over rule.body is running and may fold one more atom
MoreBody == pc = "body" /\ Len(body) < MaxBody

\* stratified_magic_compile: collect the arities of every stratum, then start
\* on a rule (ret = unit, nothing seen, serial_id = 0)
StratifiedMagicCompile(p) ==
    /\ pc = "idle"
    /\ prog' = p
    /\ store_arities' = CollectArities(p)
    /\ pc' = "body"
    /\ body' = <<>>
    /\ ret_vars' = <<>>
    /\ ret' = unit
    /\ relation_' = unit
    /\ seen_variables' = {}
    /\ serial_id' = 0
    /\ result' = NoResult
    /\ UNCHANGED compiled_relations
    /\ UNCHANGED stream

\* MagicAtom::Rule
CompileRuleAtom(atom) ==
    /\ MoreBody
    /\ LET err == RuleAtomError(store_arities, atom)
           p == ScanArgs(atom.args, seen_variables, serial_id)
       IN  IF err.kind # "Ok" THEN Fail(err, atom)
           ELSE Folded(atom, JoinScan(ret, derived(p.right_vars, atom.name), p),
                       p.seen, p.id)

\* MagicAtom::Relation
CompileRelationAtom(atom) ==
    /\ MoreBody
    /\ LET err == RelationAtomError(compiled_relations, atom)
           p == ScanArgs(atom.args, seen_variables, serial_id)
       IN  IF err.kind # "Ok" THEN Fail(err, atom)
           ELSE Folded(atom,
                       JoinScan(ret,
                                relation(p.right_vars, compiled_relations[atom.name].name),
                                p),
                       p.seen, p.id)

\* MagicAtom::Predicate
CompilePredicateAtom(atom) ==
    /\ MoreBody
    /\ Folded(atom, filter(ret, atom.expr), seen_variables, serial_id)

\* variant: a unification on a seen variable is always an equality test
UnificationFilter_Equate(atom) ==
    build_equate(<<ExprBinding(atom.binding), atom.expr>>)

\* the filter a unification on an already seen variable becomes
UnificationFilter(atom) ==
    LET args == <<ExprBinding(atom.binding), atom.expr>>
    IN  IF atom.one_many_unif THEN build_is_in(args) ELSE build_equate(args)

\* MagicAtom::Unification
CompileUnificationAtom(atom) ==
    /\ MoreBody
    /\ IF atom.binding \in seen_variables
       THEN Folded(atom, filter(ret, UnificationFilter(atom)), seen_variables, serial_id)
       ELSE Folded(atom, unify(ret, atom.binding, atom.expr, atom.one_many_unif),
                   seen_variables \cup {atom.binding}, serial_id)

\* variant: the head check looks at the plan of the first pass
Recovered_FirstPassOnly(r, ret_vars_set) == eliminate_temp_vars(r, ret_vars_set)

\* the plan after the first elimination and, if needed, the recovery join
Recovered(r, ret_vars_set) ==
    LET first == eliminate_temp_vars(r, ret_vars_set)
    IN  IF Range(bindings_after_eliminate(first)) # ret_vars_set
        THEN eliminate_temp_vars(cartesian_join(first, unit), ret_vars_set)
        ELSE first

\* variant: the error names the first head variable, exposed or not
HeadCheck_NamesHead(r, head) ==
    IF Range(bindings_after_eliminate(r)) = Range(head) THEN [kind |-> "Ok"]
    ELSE [kind |-> "UnboundSymbolInRuleHead", name |-> First(Range(head))]

\* the head check on the recovered plan: Ok, the unbound-head error naming the
\* first missing head variable, or the unwrap of an empty difference
HeadCheck(r, head) ==
    LET ret_vars_set == Range(head)
        cur_ret_set == Range(bindings_after_eliminate(r))
    IN  IF cur_ret_set = ret_vars_set THEN [kind |-> "Ok"]
        ELSE IF ret_vars_set \ cur_ret_set = {} THEN [kind |-> "Panic"]
        ELSE [kind |-> "UnboundSymbolInRuleHead",
              name |-> First(ret_vars_set \ cur_ret_set)]

\* variant: the plan is returned in the order the body exposes
Reordered_Keep(r, head) == r

\* variant: the plan is wrapped whatever order it exposes
Reordered_Always(r, head) == reorder(r, head)

\* the plan returned for a head whose variables are all exposed
Reordered(r, head) ==
    IF head # bindings_after_eliminate(r) THEN reorder(r, head) ELSE r

\* compile_magic_rule_body or the resolution of indices returns Err after the
\* loop; ret keeps the plan the head check looked at
TailFail(r, plan) ==
    /\ pc' = "failed"
    /\ result' = r
    /\ ret' = plan
    /\ relation_' = unit

\* compile_magic_rule_body after the loop (elimination, recovery join, head
\* check, reorder), then, in stratified_magic_compile, the resolution of the
\* binding indices of the returned plan
CompileRuleTail(head) ==
    /\ pc = "body"
    /\ ret_vars' = head
    /\ LET r == Recovered(ret, Range(head))
           check == HeadCheck(r, head)
           returned == Reordered(r, head)
       IN  IF check.kind # "Ok" THEN TailFail(check, r)
           ELSE IF ~FillSucceeds(returned)
           THEN TailFail([kind |-> "BadBinding"], returned)
           ELSE /\ pc' = "compiled"
                /\ ret' = returned
                /\ relation_' = fill_binding_indices_and_compile(returned)
                /\ result' = [kind |-> "Ok"]
    /\ UNCHANGED <<compiled_relations, prog, store_arities, body, seen_variables,
                   serial_id>>
    /\ UNCHANGED stream

InitLocals ==
    /\ prog = <<>>
    /\ store_arities = [n \in {} |-> 0]
    /\ pc = "idle"
    /\ body = <<>>
    /\ ret_vars = <<>>
    /\ ret = unit
    /\ relation_ = unit
    /\ seen_variables = {}
    /\ serial_id = 0
    /\ result = NoResult

\* the registry as main.rs leaves it before it compiles rules
Init ==
    /\ compiled_relations = RegistryAfter(StoredCreated)
    /\ InitLocals
    /\ stream = NoStream

\* the atoms the loop over rule.body may fold next
NextRuleAtoms == IF MoreBody THEN RuleAtoms(seen_variables) ELSE {}

NextRelationAtoms == IF MoreBody THEN RelationAtoms(seen_variables) ELSE {}

NextPredicateAtoms == IF MoreBody THEN PredicateAtoms(seen_variables) ELSE {}

NextUnificationAtoms == IF MoreBody THEN UnificationAtoms(seen_variables) ELSE {}

Next ==
    \/ \E p \in Programs : StratifiedMagicCompile(p)
    \/ \E atom \in NextRuleAtoms : CompileRuleAtom(atom)
    \/ \E atom \in NextRelationAtoms : CompileRelationAtom(atom)
    \/ \E atom \in NextPredicateAtoms : CompilePredicateAtom(atom)
    \/ \E atom \in NextUnificationAtoms : CompileUnificationAtom(atom)
    \/ \E head \in Heads : CompileRuleTail(head)

Spec == Init /\ [][Next]_vars

\* the loop over rule.body alone, up to the last atom folded
NextBody ==
    \/ \E p \in Programs : StratifiedMagicCompile(p)
    \/ \E atom \in NextRuleAtoms : CompileRuleAtom(atom)
    \/ \E atom \in NextRelationAtoms : CompileRelationAtom(atom)
    \/ \E atom \in NextPredicateAtoms : CompilePredicateAtom(atom)
    \/ \E atom \in NextUnificationAtoms : CompileUnificationAtom(atom)

SpecBody == Init /\ [][NextBody]_vars

\* ------------------------------------------------- the relation registry
\* the names main.rs creates relations under
RegistryNames == {"has_added", "has_target", "mutations"}

\* Compiler::create_relation(name, arity)
CreateRelation(name, arity) ==
    /\ pc = "idle"
    /\ LET out == create_relation(compiled_relations, name, arity)
       IN  /\ compiled_relations' = out.reg
           /\ result' = out.reply
    /\ UNCHANGED <<prog, store_arities, pc, body, ret_vars, ret, relation_,
                   seen_variables, serial_id>>
    /\ UNCHANGED stream

\* Compiler::get_relation(name)
GetRelation(name) ==
    /\ pc = "idle"
    /\ result' = get_relation(compiled_relations, name)
    /\ UNCHANGED <<compiled_relations, prog, store_arities, pc, body, ret_vars, ret,
                   relation_, seen_variables, serial_id>>
    /\ UNCHANGED stream

\* Compiler::new(): nothing is registered
InitRegistry ==
    /\ compiled_relations = EmptyRegistry
    /\ InitLocals
    /\ stream = NoStream

NextRegistry ==
    \/ \E name \in RegistryNames, arity \in 1..MaxArity : CreateRelation(name, arity)
    \/ \E name \in RegistryNames : GetRelation(name)

SpecRegistry == InitRegistry /\ [][NextRegistry]_vars

\* ------------------------------------------------- join classification
\* key lists of up to n keys drawn from the bindings of the right child
KeySeqs(S, n) == UNION {[1..k -> S] : k \in 0..n}

\* a scan of n columns named 1..n, as a stored or as a derived relation
Scans(n) ==
    LET bindings == [i \in 1..n |-> i]
    IN  {relation(bindings, "has_target"), derived(bindings, "mutations")}

\* the left child: a derived relation that exposes one column per join key
LeftOf(right_keys) == derived([i \in DOMAIN right_keys |-> MaxArity + i], "left")

\* Join nodes whose right child is a scan, every key a binding of its side
JoinInputs ==
    UNION {{join(LeftOf(k), right, LeftOf(k).bindings, k) :
               k \in KeySeqs(Range(right.bindings), Len(right.bindings))} :
           right \in UNION {Scans(n) : n \in 0..MaxArity}}

\* explain_compiled asks a Join node for its join type
ExplainJoin ==
    /\ pc = "joined"
    /\ pc' = "explained"
    /\ result' = [kind |-> "Ok", join_type |-> join_type(ret)]
    /\ UNCHANGED <<compiled_relations, prog, store_arities, body, ret_vars, ret,
                   relation_, seen_variables, serial_id>>
    /\ UNCHANGED stream

InitJoinType ==
    /\ compiled_relations = EmptyRegistry
    /\ prog = <<>>
    /\ store_arities = [n \in {} |-> 0]
    /\ pc = "joined"
    /\ body = <<>>
    /\ ret_vars = <<>>
    /\ ret \in JoinInputs
    /\ relation_ = unit
    /\ seen_variables = {}
    /\ serial_id = 0
    /\ result = NoResult
    /\ stream = NoStream

NextJoinType == ExplainJoin

SpecJoinType == InitJoinType /\ [][NextJoinType]_vars

\* ------------------------------------------------ the script of main.rs
\* the variables of the rule is_parent[p, c]
var_m == 1
var_c == 2
var_p == 3

\* the strata of the script: the three relations copied from storage, then
\* the rule that joins them
ScenarioProgram ==
    << ("mutations" :> 1) @@ ("has_added" :> 2) @@ ("has_target" :> 2),
       ("is_parent" :> 2) >>

\* the body atoms of  is_parent[p, c] := mutations[m], has_added[m, c],
\* has_target[m, p]
ScenarioBody ==
    << RuleAtom("mutations", <<var_m>>),
       RuleAtom("has_added", <<var_m, var_c>>),
       RuleAtom("has_target", <<var_m, var_p>>) >>

ScenarioHead == <<var_p, var_c>>

\* heads over the variables of the script
ScenarioHeads ==
    {h \in UNION {[1..k -> {var_m, var_c, var_p}] : k \in 0..2} : NoDup(h)}

NextScenarioAtoms == IF MoreBody THEN Range(ScenarioBody) ELSE {}

NextScenario ==
    \/ StratifiedMagicCompile(ScenarioProgram)
    \/ \E atom \in NextScenarioAtoms : CompileRuleAtom(atom)
    \/ \E head \in ScenarioHeads : CompileRuleTail(head)

SpecScenario == Init /\ [][NextScenario]_vars

\* ================================================================ claims
\* the outcomes of compile_magic_rule_body once the loop over the body is done
TailResults == {"Ok", "UnboundSymbolInRuleHead", "Panic", "BadBinding"}

\* the call got past the loop over the body and has returned
TailDone == pc \in {"compiled", "failed"} /\ result.kind \in TailResults

\* the call returned an error from inside the loop, at result.atom
AtomFailed == pc = "failed" /\ result.kind \notin TailResults

\* C1: a rule whose head variables are all bound by its body compiles, and
\* the bindings_after_eliminate() of the returned plan is the head-variable
\* list, same variables in the same order, whatever the body atoms are.
C1_HeadCoverage ==
    (TailDone /\ Range(ret_vars) \subseteq seen_variables)
        => /\ pc = "compiled"
           /\ bindings_after_eliminate(ret) = ret_vars

\* a rule of two head variables, bound by a body with a unification, whose
\* plan had to be reordered
C1_Witness ==
    /\ pc = "compiled"
    /\ Len(ret_vars) = 2
    /\ ret.kind = "Reorder"
    /\ \E i \in DOMAIN body : body[i].type = "Unification"

C3_UnboundHead ==
    TailDone =>
        LET exposed == Range(bindings_after_eliminate(ret))
            missing == Range(ret_vars) \ exposed
        IN  /\ (missing # {}) <=> (result.kind = "UnboundSymbolInRuleHead")
            /\ result.kind = "UnboundSymbolInRuleHead" => result.name \in missing

\* a head of two variables of which the plan exposes the first only
C3_Witness ==
    /\ pc = "failed"
    /\ result.kind = "UnboundSymbolInRuleHead"
    /\ Len(ret_vars) = 2
    /\ result.name = ret_vars[2]
    /\ ret_vars[1] \in Range(bindings_after_eliminate(ret))

\* the arity a rule or stored-relation application is checked against
DeclaredArity(atom) ==
    IF atom.type = "Rule" THEN store_arities[atom.name]
    ELSE compiled_relations[atom.name].arity

IsDeclared(atom) ==
    IF atom.type = "Rule" THEN atom.name \in DOMAIN store_arities
    ELSE atom.name \in DOMAIN compiled_relations

Applications(atoms) ==
    {atoms[i] : i \in {k \in DOMAIN atoms : atoms[k].type \in {"Rule", "Relation"}}}

\* C4: an application of a derived or stored relation whose argument count
\* differs from the declared arity fails the rule with ArityMismatch, which
\* carries the declared arity and the given count; no Join is built for such
\* an atom (the plan has one Join per application folded, all of them of the
\* declared arity).
C4_ArityAgreement ==
    /\ \A atom \in Applications(body) :
          IsDeclared(atom) /\ DeclaredArity(atom) = Len(atom.args)
    /\ pc = "body" => CountJoins(ret) = Len(SelectSeq(body,
                           LAMBDA a : a.type \in {"Rule", "Relation"}))
    /\ (AtomFailed /\ IsDeclared(result.atom)) =>
          /\ DeclaredArity(result.atom) # Len(result.atom.args)
          /\ result.kind = "ArityMismatch"
          /\ result.error.expected = DeclaredArity(result.atom)
          /\ result.error.given = Len(result.atom.args)
          /\ CountJoins(ret) = 0
    /\ result.kind = "ArityMismatch" => AtomFailed /\ IsDeclared(result.atom)

\* the 2-ary stored relation has_target applied to one argument
C4_Witness ==
    /\ AtomFailed
    /\ result.kind = "ArityMismatch"
    /\ result.atom.type = "Relation"
    /\ result.error.expected = 2
    /\ result.error.given = 1

\* the name is a key of some stratum of the program being compiled
InSomeStratum(name) == \E k \in DOMAIN prog : name \in DOMAIN prog[k]

\* C5: a rule application fails with RuleNotFound exactly when its name is
\* a key of no stratum of the program (a name of any stratum, earlier or
\* later, resolves), and it does so whatever its argument count is: the
\* not-found check comes before the arity check.
C5_RuleNotFound ==
    /\ \A atom \in Applications(body) : atom.type = "Rule" => InSomeStratum(atom.name)
    /\ (AtomFailed /\ result.atom.type = "Rule") =>
          ((result.kind = "RuleNotFound") <=> ~InSomeStratum(result.atom.name))
    /\ result.kind = "RuleNotFound" => AtomFailed /\ result.atom.type = "Rule"

\* an undefined rule applied to two arguments, under a program whose last
\* stratum defines mutations
C5_Witness ==
    /\ AtomFailed
    /\ result.kind = "RuleNotFound"
    /\ Len(result.atom.args) = 2
    /\ Len(prog) = 2 /\ "mutations" \in DOMAIN prog[2]

\* every filter expression attached anywhere in a plan
AllFilters(r) ==
    UNION {Range(n.filters) :
              n \in {m \in Nodes(r) : m.kind \in {"Filter", "TempStore", "Stored"}}}

Clauses(f) == Range(to_conjunction(f))

\* the clause reads only bindings the plan exposes
FitsUnder(c, child) == ExprBindings(c) \subseteq Range(bindings_after_eliminate(child))

\* out is filter(r, f) for a Join r: no clause of f that fits a child of r is
\* in a Filter on top of the Join, and each such clause is attached under a
\* child it fits
PushedDown(r, f, out) ==
    LET j == IF out.kind = "Filter" THEN out.parent ELSE out
        top == IF out.kind = "Filter" THEN Range(out.filters) ELSE {}
    IN  /\ j.kind = "Join"
        /\ \A c \in Clauses(f) :
              (FitsUnder(c, r.left) \/ FitsUnder(c, r.right)) =>
                  /\ c \notin top
                  /\ \/ FitsUnder(c, r.left) /\ c \in AllFilters(j.left)
                     \/ FitsUnder(c, r.right) /\ c \in AllFilters(j.right)

\* C6 (as amended): a filter applied to a plan whose root is a Join leaves
\* in a node above that Join no clause whose variables are a subset of the
\* exposed bindings of one child; each such clause is attached under that
\* child.  Checked for every predicate a body can apply next to every
\* Join-rooted plan a body builds.
C6_PushDownAtJoin ==
    (pc = "body" /\ ret.kind = "Join") =>
        \A atom \in PredicateAtoms(seen_variables) :
            PushedDown(ret, atom.expr, filter(ret, atom.expr))

\* a predicate on a variable of the right scan of the top Join has been
\* folded into a Join-rooted plan and sits among the filters of that scan
C6_Witness ==
    /\ pc = "body"
    /\ ret.kind = "Join"
    /\ ret.left.kind = "Join"
    /\ ret.right.kind \in {"TempStore", "Stored"}
    /\ ret.right.filters # <<>>
    /\ body[Len(body)].type = "Predicate"

\* C6 as stated: in any plan built by join, filter and unify calls, no Filter
\* node holds a clause (here: one that reads at least one variable) whose
\* variables are a subset of the exposed bindings of one child of a Join
\* below it.
C6_NeverAboveJoin ==
    pc = "body" =>
        \A n \in {m \in Nodes(ret) : m.kind = "Filter"} :
            \A f \in Range(n.filters) : \A c \in Clauses(f) :
                \A j \in Joins(n.parent) :
                    ExprBindings(c) # {} =>
                        ~(FitsUnder(c, j.left) \/ FitsUnder(c, j.right))

PositionOf(key, bindings) == (CHOOSE i \in DOMAIN bindings : bindings[i] = key) - 1

\* the positions of the right keys, once sorted, are 0, 1, .., n - 1: every
\* one of these positions is the position of exactly one key
KeysArePrefix(j) ==
    LET keys == j.joiner.right_keys
    IN  \A k \in 0..(Len(keys) - 1) :
            Cardinality({i \in DOMAIN keys :
                            PositionOf(keys[i], j.right.bindings) = k}) = 1

\* C8: for a Join whose right child is a Stored or TempStore scan, join_type
\* is the prefix variant exactly when the positions of the right keys in the
\* bindings of the right child, once sorted, are 0..n for n keys, in any key
\* order and for n = 0, and the materialized variant otherwise; on bindings
\* [a, b, c] the keys {a, b} are a prefix and the keys {a, c} are not.
C8_PrefixJoin ==
    pc = "explained" =>
        /\ ret.right.kind = "Stored" =>
              result.join_type =
                  IF KeysArePrefix(ret) THEN "stored_prefix_join" ELSE "stored_mat_join"
        /\ ret.right.kind = "TempStore" =>
              result.join_type =
                  IF KeysArePrefix(ret) THEN "mem_prefix_join" ELSE "mem_mat_join"
        /\ (ret.right.bindings = <<1, 2, 3>> /\ ret.joiner.right_keys = <<1, 2>>)
              => result.join_type \in {"stored_prefix_join", "mem_prefix_join"}
        /\ (ret.right.bindings = <<1, 2, 3>> /\ ret.joiner.right_keys = <<1, 3>>)
              => result.join_type \in {"stored_mat_join", "mem_mat_join"}

\* bindings [a, b, c] of a stored relation joined on the keys b, a, in that
\* order, classified as a prefix join
C8_Witness ==
    /\ pc = "explained"
    /\ ret.right.kind = "Stored"
    /\ ret.right.bindings = <<1, 2, 3>>
    /\ ret.joiner.right_keys = <<2, 1>>
    /\ result.join_type = "stored_prefix_join"

\* every expression of a plan has a position for each variable it reads
AllResolved(r) ==
    /\ \A f \in AllFilters(r) : ExprResolved(f)
    /\ \A n \in {m \in Nodes(r) : m.kind = "Unification"} : ExprResolved(n.expr)

\* the Join nodes of a plan that join on at least one key
KeyedJoins(r) == {j \in Joins(r) : j.joiner.left_keys # <<>>}

\* the rule of the script has been put through compile_magic_rule_body
ScenarioCompiled ==
    body = ScenarioBody /\ ret_vars = ScenarioHead /\ pc \in {"compiled", "failed"}

\* C9 (as amended): with mutations/1, has_added/2 and has_target/2 defined,
\* is_parent[p, c] := mutations[m], has_added[m, c], has_target[m, p]
\* compiles without error to a plan with exactly three Join nodes: the join
\* of unit with mutations, which has no keys, then the join with has_added on
\* m and the join with has_target on m; every expression binding of the plan
\* is resolved.
C9_ScenarioThreeJoins ==
    ScenarioCompiled =>
        /\ pc = "compiled" /\ result.kind = "Ok"
        /\ CountJoins(relation_) = 3
        /\ Cardinality(KeyedJoins(relation_)) = 2
        /\ \A j \in KeyedJoins(relation_) : j.joiner.left_keys = <<var_m>>
        /\ {j.right.storage_key : j \in KeyedJoins(relation_)}
               = {"has_added", "has_target"}
        /\ \E j \in Joins(relation_) :
               j.left = unit /\ j.right.storage_key = "mutations"
                             /\ j.joiner.left_keys = <<>>
        /\ AllResolved(relation_)
        /\ bindings_after_eliminate(relation_) = ScenarioHead

\* the rule of the script, compiled
C9_Witness == ScenarioCompiled /\ pc = "compiled" /\ relation_.kind = "Reorder"

\* C9 as stated: the compiled plan of the rule of the script has exactly two
\* Join nodes and no unresolved binding.
C9_ScenarioTwoJoins ==
    ScenarioCompiled =>
        /\ pc = "compiled" /\ result.kind = "Ok"
        /\ CountJoins(relation_) = 2
        /\ AllResolved(relation_)

\* the registry keeps every handle it had
HandlesKept == \A n \in DOMAIN compiled_relations :
                   n \in DOMAIN compiled_relations'
                       /\ compiled_relations'[n] = compiled_relations[n]

\* what a call create_relation(name, arity) does
CreateRelationContract(name, arity) ==
    IF name \in DOMAIN compiled_relations
    THEN /\ result'.kind = "RelNameConflict"
         /\ compiled_relations' = compiled_relations
    ELSE /\ result'.kind = "Ok"
         /\ DOMAIN compiled_relations' = DOMAIN compiled_relations \cup {name}
         /\ compiled_relations'[name].name = name
         /\ compiled_relations'[name].arity = arity
         /\ result'.handle = compiled_relations'[name]
         /\ HandlesKept

C10_CreateRelationStep ==
    \A name \in RegistryNames, arity \in 1..MaxArity :
        CreateRelation(name, arity) => CreateRelationContract(name, arity)

\* C10: create_relation(name, arity) on a registered name fails with the
\* name-conflict error and leaves the registry as it was, the existing
\* handle keeping its id and arity; on a new name it succeeds, stores a
\* handle of that name and arity and returns a copy of it.
C10_CreateRelation == [][C10_CreateRelationStep]_vars

\* a create_relation refused on a registry of two relations
C10_Witness ==
    /\ result.kind = "RelNameConflict"
    /\ Cardinality(DOMAIN compiled_relations) = 2
    /\ result.name \in DOMAIN compiled_relations

\* ------------------------------- the registry, then a rule body over it
\* applications of the relations main.rs may have created, registered or
\* not, each over the first variables of the rule
RegistryAtoms ==
    {RelationAtom(n, a) : n \in RegistryNames,
                          a \in {t \in AllArgSeqs : FirstOccurrenceOrder(t, {})}}

NextRegistryAtoms == IF MoreBody THEN RegistryAtoms ELSE {}

\* any sequence of registry operations, then a rule body of stored-relation
\* applications compiled against the registry they left
NextRegistryUse ==
    \/ \E name \in RegistryNames, arity \in 1..MaxArity : CreateRelation(name, arity)
    \/ \E name \in RegistryNames : GetRelation(name)
    \/ \E p \in Programs : StratifiedMagicCompile(p)
    \/ \E atom \in NextRegistryAtoms : CompileRelationAtom(atom)

SpecRegistryUse == InitRegistry /\ [][NextRegistryUse]_vars

\* get_relation(name) on the registry of the state
Lookup(name) == get_relation(compiled_relations, name)

\* nothing has been created: every lookup fails
C11_NothingCreated ==
    \A n \in RegistryNames : Lookup(n) = [kind |-> "StoredRelationNotFound", name |-> n]

\* a body folds only applications of registered relations, and an
\* application of a stored relation fails with StoredRelationNotFound
\* exactly when its name is not registered
C11_BodyAtoms ==
    /\ \A atom \in Applications(body) :
          atom.type = "Relation" => Lookup(atom.name).kind = "Ok"
    /\ (AtomFailed /\ result.atom.type = "Relation") =>
          ((result.kind = "StoredRelationNotFound")
               <=> (result.atom.name \notin DOMAIN compiled_relations))
    /\ (pc = "idle" /\ result.kind = "StoredRelationNotFound") =>
          result.name \notin DOMAIN compiled_relations

\* one step: a successful create_relation(name, arity) makes the lookup of
\* name succeed with that arity, a step that is no successful creation of a
\* name leaves the lookup of that name as it was, and get_relation replies
\* with the lookup
C11_LookupStep ==
    /\ \A name \in RegistryNames, arity \in 1..MaxArity :
          (CreateRelation(name, arity) /\ result'.kind = "Ok") =>
              /\ Lookup(name).kind = "StoredRelationNotFound"
              /\ Lookup(name)'.kind = "Ok"
              /\ Lookup(name)'.handle.name = name
              /\ Lookup(name)'.handle.arity = arity
    /\ \A name \in RegistryNames :
          (\A arity \in 1..MaxArity :
               ~(CreateRelation(name, arity) /\ result'.kind = "Ok"))
              => Lookup(name)' = Lookup(name)
    /\ \A name \in RegistryNames :
          GetRelation(name) =>
              result' = IF name \in DOMAIN compiled_relations
                        THEN [kind |-> "Ok", handle |-> compiled_relations[name]]
                        ELSE [kind |-> "StoredRelationNotFound", name |-> name]
    /\ C11_BodyAtoms'

\* C11: after any sequence of registry operations get_relation(name)
\* succeeds exactly when an earlier create_relation(name, _) succeeded, and
\* returns the arity of that first successful creation; otherwise it fails
\* with StoredRelationNotFound, and so does a body atom over a relation that
\* is not registered.  Stated step by step: no lookup succeeds at the start,
\* only a successful creation of a name changes the lookup of that name, and
\* it changes it from not found to the handle of the arity given.
C11_GetRelation == C11_NothingCreated /\ [][C11_LookupStep]_vars

\* a body atom over an unregistered relation has aborted the compilation
\* against a registry that holds two other relations
C11_Witness ==
    /\ AtomFailed
    /\ result.kind = "StoredRelationNotFound"
    /\ Cardinality(DOMAIN compiled_relations) = 2
    /\ \E n \in DOMAIN compiled_relations : compiled_relations[n].arity = 2

\* ------------------------------------------------------- compile_query
\* Compiler.relations: Compiler::new() makes it empty and nothing writes it
relations == [n \in {} |-> 0]

relation_exists(name) == name \in DOMAIN relations

\* Compiler::relation_exists(name): the reply, and nothing written
RelationExists(name) ==
    /\ pc = "idle"
    /\ result' = [kind |-> "Exists", name |-> name, exists |-> relation_exists(name)]
    /\ UNCHANGED <<compiled_relations, prog, store_arities, pc, body, ret_vars, ret,
                   relation_, seen_variables, serial_id>>
    /\ UNCHANGED stream

\* the registry operations together with the two lookups
NextLookups ==
    \/ \E name \in RegistryNames, arity \in 1..MaxArity : CreateRelation(name, arity)
    \/ \E name \in RegistryNames : GetRelation(name)
    \/ \E name \in RegistryNames : RelationExists(name)

SpecLookups == InitRegistry /\ [][NextLookups]_vars

\* out_opts.store_relation of an input program: none, or (meta, op, _)
NoStore == [op |-> "None"]

StoreRelations ==
    {NoStore} \cup
    {[op |-> o, name |-> n, arity |-> a] :
         o \in {"Create", "Put"}, n \in RegistryNames, a \in 1..MaxArity}

\* the checks of compile_query before the query is compiled: the reply and
\* the registry afterwards
store_relation_checks(reg, store) ==
    IF store.op # "Create"
    THEN [reply |-> [kind |-> "Ok"], reg |-> reg]
    ELSE IF relation_exists(store.name)
         THEN [reply |-> [kind |-> "StoreRelationConflict", name |-> store.name],
               reg |-> reg]
         ELSE create_relation(reg, store.name, store.arity)

\* compile_query(input_program): the checks, then stratified_magic_compile
\* starts on the rules of the program; a call is made once the call before
\* it has returned
CompileQuery(store, p) ==
    /\ pc \in {"idle", "compiled", "failed"}
    /\ LET out == store_relation_checks(compiled_relations, store)
       IN  /\ compiled_relations' = out.reg
           /\ IF out.reply.kind \in {"StoreRelationConflict", "RelNameConflict"}
              THEN /\ pc' = "failed"
                   /\ result' = [kind |-> out.reply.kind, error |-> out.reply,
                                 query |-> store]
                   /\ prog' = <<>>
                   /\ store_arities' = [n \in {} |-> 0]
              ELSE /\ pc' = "body"
                   /\ result' = NoResult
                   /\ prog' = p
                   /\ store_arities' = CollectArities(p)
    /\ body' = <<>>
    /\ ret_vars' = <<>>
    /\ ret' = unit
    /\ relation_' = unit
    /\ seen_variables' = {}
    /\ serial_id' = 0
    /\ UNCHANGED stream

NextQuery ==
    \/ \E store \in StoreRelations, p \in Programs : CompileQuery(store, p)
    \/ \E atom \in NextRegistryAtoms : CompileRelationAtom(atom)
    \/ \E head \in Heads : CompileRuleTail(head)

SpecQuery == InitRegistry /\ [][NextQuery]_vars

\* compile_query has refused a query at its checks
QueryRefused == pc = "failed" /\ "query" \in DOMAIN result

\* C12: a top-level query that requests creating (op Create) a stored
\* relation whose name is already registered fails with the
\* StoreRelationConflict error.
C12_StoreRelationConflict ==
    (/\ QueryRefused
     /\ result.query.op = "Create"
     /\ result.query.name \in DOMAIN compiled_relations)
        => result.kind = "StoreRelationConflict"

\* a query asking to create a registered relation is refused, and with the
\* error of create_relation
C12_Refused ==
    /\ QueryRefused
    /\ result.query.op = "Create"
    /\ result.query.name \in DOMAIN compiled_relations
    /\ result.kind = "RelNameConflict"

\* ------------------------------------- stratified_magic_compile as a whole
MaxRules == 2

\* F applied to the value of x: a local of the code, computed once and then
\* read any number of times
ByValue(x, F(_)) == CHOOSE y \in {F(v) : v \in {x}} : TRUE

\* one iteration of the loop over rule.body on the locals st, or the Err
\* the loop returns
fold_atom(reg, arities, st, atom) ==
    IF st.kind # "Ok" THEN st
    ELSE IF atom.type = "Rule"
    THEN LET err == RuleAtomError(arities, atom)
             p == ScanArgs(atom.args, st.seen, st.id)
         IN  IF err.kind # "Ok" THEN err
             ELSE [kind |-> "Ok", seen |-> p.seen, id |-> p.id,
                   ret |-> JoinScan(st.ret, derived(p.right_vars, atom.name), p)]
    ELSE IF atom.type = "Relation"
    THEN LET err == RelationAtomError(reg, atom)
             p == ScanArgs(atom.args, st.seen, st.id)
         IN  IF err.kind # "Ok" THEN err
             ELSE [kind |-> "Ok", seen |-> p.seen, id |-> p.id,
                   ret |-> JoinScan(st.ret,
                                    relation(p.right_vars, reg[atom.name].name), p)]
    ELSE IF atom.type = "Predicate"
    THEN [st EXCEPT !.ret = filter(@, atom.expr)]
    ELSE IF atom.binding \in st.seen
    THEN [st EXCEPT !.ret = filter(@, UnificationFilter(atom))]
    ELSE [st EXCEPT !.ret = unify(@, atom.binding, atom.expr, atom.one_many_unif),
                    !.seen = @ \cup {atom.binding}]

\* the loop over rule.body, from ret = unit
RECURSIVE fold_body(_, _, _)
fold_body(reg, arities, atoms) ==
    IF atoms = <<>> THEN [kind |-> "Ok", seen |-> {}, id |-> 0, ret |-> unit]
    ELSE ByValue(fold_body(reg, arities, SubSeq(atoms, 1, Len(atoms) - 1)),
                 LAMBDA st : fold_atom(reg, arities, st, atoms[Len(atoms)]))

\* compile_magic_rule_body(rule) followed by fill_binding_indices_and_compile:
\* the compiled relation, or the Err either of them returns
compile_magic_rule_body(reg, arities, rule) ==
    ByValue(fold_body(reg, arities, rule.body), LAMBDA st :
        IF st.kind # "Ok" THEN st
        ELSE ByValue(Recovered(st.ret, Range(rule.head)), LAMBDA r :
                 LET check == HeadCheck(r, rule.head)
                     returned == Reordered(r, rule.head)
                 IN  IF check.kind # "Ok" THEN check
                     ELSE IF ~FillSucceeds(returned) THEN [kind |-> "BadBinding"]
                     ELSE [kind |-> "Ok",
                           relation |-> fill_binding_indices_and_compile(returned)]))

\* MagicRulesOrFixed / CompiledRuleSet: a list of rules, or a fixed rule
Rules(rules) == [rules |-> rules]

Fixed(fixed) == [fixed |-> fixed]

IsFixed(ruleset) == "fixed" \in DOMAIN ruleset

\* CompiledRule { aggr, relation, .. }
CompiledRule(aggr, rel) == [aggr |-> aggr, relation |-> rel]

\* variant: a rule that fails to compile is left out of the rule set
RECURSIVE compile_rules_SkipFailed(_, _, _)
compile_rules_SkipFailed(reg, arities, rules) ==
    IF rules = <<>> THEN [kind |-> "Ok", collected |-> <<>>]
    ELSE ByValue(compile_rules_SkipFailed(reg, arities,
                                          SubSeq(rules, 1, Len(rules) - 1)),
                 LAMBDA init :
             ByValue(compile_magic_rule_body(reg, arities, rules[Len(rules)]),
                     LAMBDA r :
                 IF r.kind # "Ok" THEN init
                 ELSE [init EXCEPT !.collected =
                           Append(@, CompiledRule(rules[Len(rules)].aggr,
                                                  r.relation))]))

\* for rule in body.iter(): the rules collected, or the first Err
RECURSIVE compile_rules(_, _, _)
compile_rules(reg, arities, rules) ==
    IF rules = <<>> THEN [kind |-> "Ok", collected |-> <<>>]
    ELSE ByValue(compile_rules(reg, arities, SubSeq(rules, 1, Len(rules) - 1)),
                 LAMBDA init :
             IF init.kind # "Ok" THEN init
             ELSE ByValue(compile_magic_rule_body(reg, arities, rules[Len(rules)]),
                          LAMBDA r :
                      IF r.kind # "Ok" THEN r
                      ELSE [init EXCEPT !.collected =
                                Append(@, CompiledRule(rules[Len(rules)].aggr,
                                                       r.relation))]))

\* the rule names of the programs, in the order of the BTreeMap of a stratum
RuleNames == <<"is_parent", "mutations", "reachable">>

Keys(cur_prog) == SelectSeq(RuleNames, LAMBDA n : n \in DOMAIN cur_prog)

\* one stratum: its rule sets in the order of their names, try_collect-ed
RECURSIVE compile_stratum(_, _, _, _)
compile_stratum(reg, arities, cur_prog, keys) ==
    IF keys = <<>> THEN [kind |-> "Ok", prog |-> [n \in {} |-> <<>>]]
    ELSE ByValue(compile_stratum(reg, arities, cur_prog,
                                 SubSeq(keys, 1, Len(keys) - 1)),
                 LAMBDA init :
             LET k == keys[Len(keys)]
             IN  IF init.kind # "Ok" THEN init
                 ELSE IF IsFixed(cur_prog[k])
                 THEN [kind |-> "Ok",
                       prog |-> [n \in DOMAIN init.prog \cup {k} |->
                                    IF n = k THEN Fixed(cur_prog[k].fixed)
                                    ELSE init.prog[n]]]
                 ELSE ByValue(compile_rules(reg, arities, cur_prog[k].rules),
                              LAMBDA rs :
                          IF rs.kind # "Ok" THEN rs
                          ELSE [kind |-> "Ok",
                                prog |-> [n \in DOMAIN init.prog \cup {k} |->
                                             IF n = k THEN Rules(rs.collected)
                                             ELSE init.prog[n]]]))

\* variant: the strata are compiled and returned in the order of the input
RECURSIVE compile_strata_InOrder(_, _, _)
compile_strata_InOrder(reg, arities, strata) ==
    IF strata = <<>> THEN [kind |-> "Ok", compiled |-> <<>>]
    ELSE ByValue(compile_stratum(reg, arities, strata[1], Keys(strata[1])),
                 LAMBDA cur :
             IF cur.kind # "Ok" THEN cur
             ELSE ByValue(compile_strata_InOrder(reg, arities, Tail(strata)),
                          LAMBDA rest :
                      IF rest.kind # "Ok" THEN rest
                      ELSE [kind |-> "Ok",
                            compiled |-> <<cur.prog>> \o rest.compiled]))

\* the strata from the last to the first, try_collect-ed
RECURSIVE compile_strata(_, _, _)
compile_strata(reg, arities, strata) ==
    IF strata = <<>> THEN [kind |-> "Ok", compiled |-> <<>>]
    ELSE ByValue(compile_stratum(reg, arities, strata[Len(strata)],
                                 Keys(strata[Len(strata)])),
                 LAMBDA cur :
             IF cur.kind # "Ok" THEN cur
             ELSE ByValue(compile_strata(reg, arities,
                                         SubSeq(strata, 1, Len(strata) - 1)),
                          LAMBDA rest :
                      IF rest.kind # "Ok" THEN rest
                      ELSE [kind |-> "Ok",
                            compiled |-> <<cur.prog>> \o rest.compiled]))

\* ruleset.arity() of every rule set of every stratum
Arities(strata) ==
    [i \in DOMAIN strata |->
        [n \in DOMAIN strata[i] |->
            IF IsFixed(strata[i][n]) THEN strata[i][n].fixed.arity
            ELSE Len(strata[i][n].rules[1].head)]]

stratified_magic_compile(reg, strata) ==
    ByValue(CollectArities(Arities(strata)),
            LAMBDA arities : compile_strata(reg, arities, strata))

\* Option<(Aggregation, Vec<DataValue>)> at a head position
NoAggr == [is_some |-> FALSE]

Aggr(is_meet) == [is_some |-> TRUE, is_meet |-> is_meet]

\* a rule clause with the aggregation of each head position
AggrClause(head, aggr, atoms) == [head |-> head, aggr |-> aggr, body |-> atoms]

\* rule clauses of is_parent (two head variables) and of mutations (one),
\* none with an aggregation
Clause(head, atoms) == AggrClause(head, [i \in DOMAIN head |-> NoAggr], atoms)

ParentClauses ==
    { Clause(<<1, 2>>, <<RelationAtom("has_target", <<1, 2>>)>>),
      Clause(<<2, 1>>, <<RuleAtom("mutations", <<1>>),
                         RelationAtom("has_added", <<1, 2>>)>>),
      Clause(<<1, 2>>, <<RelationAtom("ghost", <<1, 2>>)>>),
      Clause(<<1, 2>>, <<RelationAtom("has_added", <<1, 2>>),
                         RuleAtom("nodes", <<1>>)>>) }

MutationClauses ==
    { Clause(<<1>>, <<RelationAtom("has_added", <<1, 2>>)>>),
      Clause(<<1>>, <<RelationAtom("mutations", <<1>>),
                      PredicateAtom(Gt(1))>>),
      Clause(<<1>>, <<RelationAtom("has_added", <<1>>)>>) }

RuleSets(clauses) ==
    UNION {[1..k -> clauses] : k \in 1..MaxRules}

\* the programs: is_parent over mutations, in two strata or in one
ClausePrograms ==
    { << [n \in {"is_parent"} |-> Rules(ps)], [n \in {"mutations"} |-> Rules(ms)] >> :
          ps \in RuleSets(ParentClauses), ms \in RuleSets(MutationClauses) }
    \cup
    { << [n \in {"is_parent", "mutations"} |->
             IF n = "is_parent" THEN Rules(q[1]) ELSE Rules(q[2])] >> :
          q \in RuleSets(ParentClauses) \X RuleSets(MutationClauses) }

\* stratified_magic_compile(prog), from its call to its return
CompileProgram(p) ==
    /\ pc = "idle"
    /\ prog' = p
    /\ store_arities' = CollectArities(Arities(p))
    /\ \E out \in {stratified_magic_compile(compiled_relations, p)} :
           /\ result' = out
           /\ pc' = IF out.kind = "Ok" THEN "compiled" ELSE "failed"
    /\ UNCHANGED <<compiled_relations, body, ret_vars, ret, relation_,
                   seen_variables, serial_id>>
    /\ UNCHANGED stream

\* ------------------------------------------ compile_query as one call
\* compile_query(input_program): the checks of a requested mutation, then
\* stratified_magic_compile on the registry the checks leave; the reply and
\* the registry afterwards
compile_query(reg, store, p) ==
    \* ensure!(..) and create_relation(..)? return the error of the checks
    ByValue(store_relation_checks(reg, store), LAMBDA checked :
        IF checked.reply.kind \in {"StoreRelationConflict", "RelNameConflict"}
        THEN [reply |-> [kind |-> checked.reply.kind], reg |-> checked.reg]
        ELSE [reply |-> stratified_magic_compile(checked.reg, p),
              reg |-> checked.reg])

\* the programs of a query: is_parent over has_target, or over mutations and
\* has_added, and mutations over has_added
QueryPrograms ==
    { << [n \in {"is_parent"} |-> Rules(<<c>>)],
         [n \in {"mutations"} |->
             Rules(<<Clause(<<1>>, <<RelationAtom("has_added", <<1, 2>>)>>)>>)] >> :
          c \in { Clause(<<1, 2>>, <<RelationAtom("has_target", <<1, 2>>)>>),
                  Clause(<<2, 1>>, <<RuleAtom("mutations", <<1>>),
                                     RelationAtom("has_added", <<1, 2>>)>>) } }

\* compile_query(input_program), from its call to its return
CompileQueryCall(store, p) ==
    /\ pc \in {"idle", "compiled", "failed"}
    /\ prog' = p
    /\ store_arities' = CollectArities(Arities(p))
    /\ \E out \in {compile_query(compiled_relations, store, p)} :
           /\ compiled_relations' = out.reg
           /\ result' = [kind |-> out.reply.kind, query |-> store]
           /\ pc' = IF out.reply.kind = "Ok" THEN "compiled" ELSE "failed"
    /\ UNCHANGED <<body, ret_vars, ret, relation_, seen_variables, serial_id>>
    /\ UNCHANGED stream

NextQueryCall ==
    \E store \in StoreRelations, p \in QueryPrograms : CompileQueryCall(store, p)

SpecQueryCall == InitRegistry /\ [][NextQueryCall]_vars

\* ------------------------------------------------------ explain_compiled
is_unit(r) == r.kind = "Fixed" /\ r.bindings = <<>> /\ Len(r.data) = 1

\* the row of a plan node (its op and out_relation columns) of a clause
Row(clause, idx, op, rel) ==
    [stratum |-> clause.stratum, rule_idx |-> clause.rule_idx, rule |-> clause.rule,
     atom_idx |-> idx, op |-> op, out_relation |-> bindings_after_eliminate(rel)]

\* while let Some(rel) = rel_stack.pop(): the rows pushed, in push order
RECURSIVE explain_nodes(_, _, _)
explain_nodes(rel_stack, idx, clause) ==
    IF rel_stack = <<>> THEN <<>>
    ELSE LET rel == rel_stack[Len(rel_stack)]
             rest == SubSeq(rel_stack, 1, Len(rel_stack) - 1)
         IN  CASE rel.kind = "Fixed" ->
                    IF is_unit(rel) THEN explain_nodes(rest, idx, clause)
                    ELSE <<Row(clause, idx, "fixed", rel)>>
                             \o explain_nodes(rest, idx + 1, clause)
               [] rel.kind = "TempStore" ->
                    <<Row(clause, idx, "load_mem", rel)>>
                        \o explain_nodes(rest, idx + 1, clause)
               [] rel.kind = "Stored" ->
                    <<Row(clause, idx, "load_stored", rel)>>
                        \o explain_nodes(rest, idx + 1, clause)
               [] rel.kind = "Join" ->
                    IF is_unit(rel.left)
                    THEN explain_nodes(Append(rest, rel.right), idx, clause)
                    ELSE <<Row(clause, idx, join_type(rel), rel)>>
                             \o explain_nodes(rest \o <<rel.left, rel.right>>,
                                              idx + 1, clause)
               [] rel.kind = "Reorder" ->
                    <<Row(clause, idx, "reorder", rel)>>
                        \o explain_nodes(Append(rest, rel.relation), idx + 1, clause)
               [] rel.kind = "Filter" ->
                    <<Row(clause, idx, "filter", rel)>>
                        \o explain_nodes(Append(rest, rel.parent), idx + 1, clause)
               [] rel.kind = "Unification" ->
                    <<Row(clause, idx, IF rel.is_multi THEN "multi-unify" ELSE "unify",
                          rel)>>
                        \o explain_nodes(Append(rest, rel.parent), idx + 1, clause)

\* variant: the rows of a clause are kept in the order they were pushed
Reverse_Keep(rows) == rows

\* ret_for_relation.reverse()
Reverse(rows) == [i \in 1..Len(rows) |-> rows[Len(rows) + 1 - i]]

\* the op of the summary row: for (a, _) in aggr.iter().flatten()
RECURSIVE atom_type(_)
atom_type(aggr) ==
    IF aggr = <<>> THEN "out"
    ELSE LET init == atom_type(SubSeq(aggr, 1, Len(aggr) - 1))
             a == aggr[Len(aggr)]
         IN  IF ~a.is_some THEN init
             ELSE IF ~a.is_meet THEN "aggr_out"
             ELSE IF init = "out" THEN "meet_aggr_out"
             ELSE init

\* the rows of one compiled rule
explain_rule(clause, rule) ==
    Reverse(<<Row(clause, 0, atom_type(rule.aggr), rule.relation)>>
                \o explain_nodes(<<rule.relation>>, 1, clause))

\* for rule in rules.iter(), clause_idx counting on from `done`
RECURSIVE explain_rules(_, _, _, _)
explain_rules(stratum, rule_name, rules, done) ==
    IF rules = <<>> THEN <<>>
    ELSE explain_rules(stratum, rule_name, SubSeq(rules, 1, Len(rules) - 1), done)
         \o explain_rule([stratum |-> stratum, rule |-> rule_name,
                          rule_idx |-> done + Len(rules) - 1],
                         rules[Len(rules)])

\* for (rule_name, v) in p: the rows and the number of clauses gone through
RECURSIVE explain_stratum(_, _, _)
explain_stratum(stratum, p, keys) ==
    IF keys = <<>> THEN [rows |-> <<>>, done |-> 0]
    ELSE LET init == explain_stratum(stratum, p, SubSeq(keys, 1, Len(keys) - 1))
             k == keys[Len(keys)]
         IN  IF IsFixed(p[k])
             THEN [rows |-> Append(init.rows,
                                   [stratum |-> stratum, rule_idx |-> 0, rule |-> k,
                                    atom_idx |-> 0, op |-> "algo"]),
                   done |-> init.done]
             ELSE [rows |-> init.rows
                                \o explain_rules(stratum, k, p[k].rules, init.done),
                   done |-> init.done + Len(p[k].rules)]

\* for (stratum, p) in strata.iter().enumerate()
RECURSIVE explain_compiled(_)
explain_compiled(strata) ==
    IF strata = <<>> THEN <<>>
    ELSE explain_compiled(SubSeq(strata, 1, Len(strata) - 1))
         \o explain_stratum(Len(strata) - 1, strata[Len(strata)],
                            Keys(strata[Len(strata)])).rows

\* explain_compiled on the program stratified_magic_compile returned
ExplainCompiled ==
    /\ pc = "compiled"
    /\ "compiled" \in DOMAIN result
    /\ result' = [kind |-> "Ok", compiled |-> result.compiled,
                  rows |-> explain_compiled(result.compiled)]
    /\ pc' = "explained"
    /\ UNCHANGED <<compiled_relations, prog, store_arities, body, ret_vars, ret,
                   relation_, seen_variables, serial_id>>
    /\ UNCHANGED stream

NextProgram ==
    \/ \E p \in ClausePrograms : CompileProgram(p)
    \/ ExplainCompiled

SpecProgram == Init /\ [][NextProgram]_vars

\* ------------------------ programs with aggregations and fixed rules
\* clauses of is_parent: two bodies, the head plain or with a meet
\* aggregation at its last position
ParentAggrClauses ==
    { AggrClause(<<1, 2>>, aggr, atoms) :
          aggr \in {<<NoAggr, NoAggr>>, <<NoAggr, Aggr(TRUE)>>},
          atoms \in { <<RelationAtom("has_target", <<1, 2>>)>>,
                      <<RuleAtom("mutations", <<1>>),
                        RelationAtom("has_added", <<1, 2>>)>> } }

\* clauses of mutations: one body, the head plain or aggregated
MutationAggrClauses ==
    { AggrClause(<<1>>, <<a>>, <<RelationAtom("has_added", <<1, 2>>)>>) :
          a \in {NoAggr, Aggr(TRUE), Aggr(FALSE)} }

\* MagicFixedRuleApply: the fixed rule applied and its arity
FixedRules == {[fixed_handle |-> "Constant", arity |-> a] : a \in 1..2}

\* is_parent over mutations and the fixed rule reachable, in two strata or
\* in one
StrataPrograms ==
    { << [n \in {"is_parent"} |-> Rules(ps)],
         [n \in {"mutations", "reachable"} |->
             IF n = "mutations" THEN Rules(<<m>>) ELSE Fixed(f)] >> :
          ps \in RuleSets(ParentAggrClauses), m \in MutationAggrClauses,
          f \in FixedRules }
    \cup
    { << [n \in {"is_parent", "mutations", "reachable"} |->
             IF n = "is_parent" THEN Rules(ps)
             ELSE IF n = "mutations" THEN Rules(<<m>>) ELSE Fixed(f)] >> :
          ps \in RuleSets(ParentAggrClauses), m \in MutationAggrClauses,
          f \in FixedRules }

NextStrata ==
    \/ \E p \in StrataPrograms : CompileProgram(p)
    \/ ExplainCompiled

SpecStrata == Init /\ [][NextStrata]_vars

\* ------------------------------------------- CompiledRuleSet::aggr_kind
\* the loop over rules[0].aggr with an unaggregated position after an
\* aggregated one let pass
RECURSIVE aggr_fold_AnyOrder(_, _, _)
aggr_fold_AnyOrder(aggr, has_aggr, has_non_meet) ==
    IF aggr = <<>> THEN [has_aggr |-> has_aggr, has_non_meet |-> has_non_meet]
    ELSE IF ~Head(aggr).is_some
         THEN aggr_fold_AnyOrder(Tail(aggr), has_aggr, has_non_meet)
         ELSE aggr_fold_AnyOrder(Tail(aggr), TRUE,
                                 has_non_meet \/ ~Head(aggr).is_meet)

\* the loop over rules[0].aggr: the two flags after the positions left
RECURSIVE aggr_fold(_, _, _)
aggr_fold(aggr, has_aggr, has_non_meet) ==
    IF aggr = <<>> THEN [has_aggr |-> has_aggr, has_non_meet |-> has_non_meet]
    ELSE IF ~Head(aggr).is_some
         THEN aggr_fold(Tail(aggr), has_aggr, has_non_meet \/ has_aggr)
         ELSE aggr_fold(Tail(aggr), TRUE, has_non_meet \/ ~Head(aggr).is_meet)

aggr_kind(ruleset) ==
    IF IsFixed(ruleset) THEN "None"
    ELSE LET f == aggr_fold(ruleset.rules[1].aggr, FALSE, FALSE)
         IN  IF ~f.has_aggr THEN "None"
             ELSE IF f.has_non_meet THEN "Normal" ELSE "Meet"

\* aggregation lists of the heads of up to MaxArity positions
AggrLists ==
    UNION { [1..n -> {NoAggr, Aggr(TRUE), Aggr(FALSE)}] : n \in 0..MaxArity }

\* compiled rule sets: a first clause with any aggregation list, the later
\* clauses of the same arity repeating it or aggregating nothing; and the
\* fixed rules
CompiledRuleSets ==
    { Rules([k \in 1..Len(later) + 1 |->
                CompiledRule(IF k = 1 \/ later[k - 1] THEN first
                             ELSE [i \in DOMAIN first |-> NoAggr], unit)]) :
          first \in AggrLists,
          later \in UNION { [1..n -> BOOLEAN] : n \in 0..(MaxRules - 1) } }
    \cup { Fixed(f) : f \in FixedRules }

InitAggr ==
    /\ compiled_relations = EmptyRegistry
    /\ prog = <<>>
    /\ store_arities = [n \in {} |-> 0]
    /\ pc = "compiled"
    /\ body = <<>>
    /\ ret_vars = <<>>
    /\ ret = unit
    /\ relation_ = unit
    /\ seen_variables = {}
    /\ serial_id = 0
    /\ result \in {[ruleset |-> rs] : rs \in CompiledRuleSets}
    /\ stream = NoStream

\* a caller asks a compiled rule set for its aggr_kind
AggrKind ==
    /\ pc = "compiled"
    /\ "ruleset" \in DOMAIN result
    /\ pc' = "classified"
    /\ result' = [ruleset |-> result.ruleset,
                  aggr_kind |-> aggr_kind(result.ruleset)]
    /\ UNCHANGED <<compiled_relations, prog, store_arities, body, ret_vars, ret,
                   relation_, seen_variables, serial_id, stream>>

NextAggr == AggrKind

SpecAggr == InitAggr /\ [][NextAggr]_vars

\* the rule clauses of the program handed in, as (stratum, name, index)
InputRules ==
    {k \in (DOMAIN prog) \X Range(RuleNames) \X (1..MaxRules) :
         /\ k[2] \in DOMAIN prog[k[1]]
         /\ ~IsFixed(prog[k[1]][k[2]])
         /\ k[3] \in DOMAIN prog[k[1]][k[2]].rules}

\* what compiling the clause k alone gives
RuleOutcome(k) ==
    compile_magic_rule_body(compiled_relations, store_arities,
                            prog[k[1]][k[2]].rules[k[3]])

\* C13: if compiling an atom of a rule of a stratum fails,
\* stratified_magic_compile returns that error and no compiled program at
\* all; when it succeeds, every rule clause of every stratum of the input
\* has its compiled rule in the output (the strata from the last to the
\* first, the clauses of a rule set in their order).
C13_NoPartialCompilation ==
    (pc \in {"compiled", "failed"}) =>
        /\ (pc = "failed") <=> (\E k \in InputRules : RuleOutcome(k).kind # "Ok")
        /\ (pc = "failed") =>
              /\ DOMAIN result \cap {"compiled", "collected", "prog", "relation"} = {}
              /\ \E k \in InputRules : result = RuleOutcome(k)
        /\ (pc = "compiled") =>
              /\ result.kind = "Ok"
              /\ Len(result.compiled) = Len(prog)
              /\ \A i \in DOMAIN prog :
                    DOMAIN result.compiled[Len(prog) + 1 - i] = DOMAIN prog[i]
              /\ \A k \in InputRules :
                    LET rules == result.compiled[Len(prog) + 1 - k[1]][k[2]].rules
                    IN  /\ Len(rules) = Len(prog[k[1]][k[2]].rules)
                        /\ rules[k[3]].relation = RuleOutcome(k).relation

\* the call failed on an atom, on a program of two strata of which another
\* rule compiles
C13_Witness ==
    /\ pc = "failed"
    /\ result.kind \in {"StoredRelationNotFound", "RuleNotFound", "ArityMismatch"}
    /\ \E k \in InputRules : RuleOutcome(k).kind = "Ok"
    /\ Len(prog) = 2

\* ------------------------------- the passes over the plan of a rule, one
\* call at a time
\* ret.eliminate_temp_vars(&ret_vars_set) after the loop over the body
EliminateTempVars(head) ==
    /\ pc = "body"
    /\ ret_vars' = head
    /\ ret' = eliminate_temp_vars(ret, Range(head))
    /\ pc' = "eliminated"
    /\ UNCHANGED <<compiled_relations, prog, store_arities, body, relation_,
                   seen_variables, serial_id, result>>
    /\ UNCHANGED stream

\* the exposed bindings are not the head variables after the first pass
NeedsRecovery == Range(bindings_after_eliminate(ret)) # Range(ret_vars)

\* variant: the wrapped plan is not put through the elimination again
RecoveryJoin_NoPass(r, used) == cartesian_join(r, unit)

\* variant: the second pass is handed an empty needed set
RecoveryJoin_NothingNeeded(r, used) == eliminate_temp_vars(cartesian_join(r, unit), {})

\* ret = ret.cartesian_join(unit); ret.eliminate_temp_vars(&ret_vars_set)
RecoveryJoin(r, used) == eliminate_temp_vars(cartesian_join(r, unit), used)

EliminateTempVarsAgain ==
    /\ pc = "eliminated"
    /\ NeedsRecovery
    /\ ret' = RecoveryJoin(ret, Range(ret_vars))
    /\ pc' = "re_eliminated"
    /\ UNCHANGED <<compiled_relations, prog, store_arities, body, ret_vars, relation_,
                   seen_variables, serial_id, result>>
    /\ UNCHANGED stream

\* the head check and the reorder: compile_magic_rule_body returns
ReturnPlan ==
    /\ \/ pc = "eliminated" /\ ~NeedsRecovery
       \/ pc = "re_eliminated"
    /\ LET check == HeadCheck(ret, ret_vars)
       IN  IF check.kind # "Ok"
           THEN /\ pc' = "failed"
                /\ result' = check
                /\ ret' = ret
           ELSE /\ pc' = "returned"
                /\ result' = result
                /\ ret' = Reordered(ret, ret_vars)
    /\ UNCHANGED <<compiled_relations, prog, store_arities, body, ret_vars, relation_,
                   seen_variables, serial_id>>
    /\ UNCHANGED stream

\* relation.fill_binding_indices_and_compile() on the plan returned
FillBindingIndices ==
    /\ pc = "returned"
    /\ IF FillSucceeds(ret)
       THEN /\ pc' = "compiled"
            /\ relation_' = fill_binding_indices_and_compile(ret)
            /\ result' = [kind |-> "Ok"]
       ELSE /\ pc' = "failed"
            /\ relation_' = relation_
            /\ result' = [kind |-> "BadBinding"]
    /\ UNCHANGED <<compiled_relations, prog, store_arities, body, ret_vars, ret,
                   seen_variables, serial_id>>
    /\ UNCHANGED stream

NextPasses ==
    \/ \E p \in Programs : StratifiedMagicCompile(p)
    \/ \E atom \in NextRelationAtoms : CompileRelationAtom(atom)
    \/ \E atom \in NextPredicateAtoms : CompilePredicateAtom(atom)
    \/ \E atom \in NextUnificationAtoms : CompileUnificationAtom(atom)
    \/ \E head \in Heads : EliminateTempVars(head)
    \/ EliminateTempVarsAgain
    \/ ReturnPlan
    \/ FillBindingIndices

SpecPasses == Init /\ [][NextPasses]_vars

\* a step in which eliminate_temp_vars is called on the plan of the rule
EliminationStep == pc' \in {"eliminated", "re_eliminated"} /\ pc' # pc

\* a step in which fill_binding_indices_and_compile is called
ResolutionStep ==
    pc' # pc /\ (pc' = "compiled" \/ (pc' = "failed" /\ result'.kind = "BadBinding"))

\* the elimination has been through the whole tree: one more pass for the
\* head variables changes no elimination set
EliminationComplete == eliminate_temp_vars(ret, Range(ret_vars)) = ret

\* the rule goes on to compile from the plan in ret
Compiles(plan, head) ==
    /\ HeadCheck(plan, head).kind = "Ok"
    /\ FillSucceeds(Reordered(plan, head))

C14_PassStep ==
    /\ ResolutionStep =>
          /\ pc = "returned"
          /\ EliminationComplete
    /\ EliminationStep =>
          /\ pc \in {"body", "eliminated"}
          /\ (pc = "eliminated") =>
                /\ NeedsRecovery
                /\ ret'.kind = "Join"
                /\ ret'.right = eliminate_temp_vars(unit, {})
          /\ EliminationComplete'
    /\ (pc' = "returned" /\ pc # "returned") =>
          /\ pc \in {"eliminated", "re_eliminated"}
          /\ (pc = "eliminated") => ~NeedsRecovery

\* C14 (as the code has it): for every rule the elimination pass is applied
\* to the plan once after the loop over the body, and once more, to the
\* plan wrapped in the recovery join, exactly when the first pass leaves
\* exposed bindings that are not the head variables; every pass has been
\* through the whole tree before the resolution of binding indices starts,
\* which starts only on the plan compile_magic_rule_body returned.
C14_PassOrdering == [][C14_PassStep]_vars

\* C14 as stated: for a rule that compiles, the elimination pass is applied
\* exactly once, to a plan it was not applied to before.
C14_EliminatedOnce ==
    [][(EliminationStep /\ Compiles(ret', ret_vars')) => pc = "body"]_vars

\* a rule has compiled whose plan went through the elimination twice: the
\* root below the reorder is the recovery join
C14_Witness ==
    /\ pc = "compiled"
    /\ body # <<>>
    /\ \E n \in Nodes(relation_) :
          /\ n.kind = "Join"
          /\ n.right.kind = "Fixed"
          /\ n.left.kind = "Unification"

\* the rows of an explained program, and those of one clause
ExplainRows == result.rows

SameClause(a, b) == a.stratum = b.stratum /\ a.rule_idx = b.rule_idx

\* C15 (as the code has it): in the rows returned by explain_compiled the
\* rows of a rule clause are consecutive and in decreasing atom_idx: the rows
\* of the plan nodes come first and the head summary row (atom_idx 0, op
\* out) comes last, after all rows of the plan nodes of that clause.
C15_SummaryRowLast ==
    pc = "explained" =>
        \A i \in DOMAIN ExplainRows :
            LET row == ExplainRows[i]
            IN  IF row.atom_idx = 0
                THEN /\ row.op = "out"
                     /\ i < Len(ExplainRows) => ~SameClause(ExplainRows[i + 1], row)
                     /\ \A j \in DOMAIN ExplainRows :
                           (SameClause(ExplainRows[j], row) /\ j # i) => j < i
                ELSE /\ i < Len(ExplainRows)
                     /\ SameClause(ExplainRows[i + 1], row)
                     /\ ExplainRows[i + 1].atom_idx = row.atom_idx - 1

\* C15 as stated: for each rule clause the summary row (atom_idx 0) comes
\* before all rows of the plan nodes of that clause.
C15_SummaryRowFirst ==
    pc = "explained" =>
        \A i, j \in DOMAIN ExplainRows :
            (/\ SameClause(ExplainRows[i], ExplainRows[j])
             /\ ExplainRows[i].atom_idx = 0
             /\ ExplainRows[j].atom_idx > 0) => i < j

\* a program of two strata is explained; one of its clauses has a reorder
\* over a join of two scans, so four rows before its summary row
C15_Witness ==
    /\ pc = "explained"
    /\ Len(result.compiled) = 2
    /\ \E i \in DOMAIN ExplainRows :
          /\ i > 4
          /\ ExplainRows[i].atom_idx = 0
          /\ ExplainRows[i - 1].op = "reorder"
          /\ ExplainRows[i - 4].atom_idx = 4
          /\ SameClause(ExplainRows[i - 4], ExplainRows[i])

\* --------------------------------------- SplitCompoundWordsTokenStream
MaxText == 3
MaxTokens == 2

\* token texts: strings over two letters
Alphabet == {"a", "b"}

Texts == UNION {[1..n -> Alphabet] : n \in 0..MaxText}

\* the dictionaries given to from_dictionary
Dictionaries ==
    { {},
      {<<"a">>, <<"b">>},
      {<<"a">>, <<"a", "b">>},
      {<<"a">>, <<"a", "b">>, <<"b", "b">>},
      {<<"b", "a">>, <<"b">>} }

\* the words of the dictionary that occur in text at byte offset s
MatchesAt(dict, text, s) ==
    {w \in dict : /\ Len(w) > 0
                  /\ s + Len(w) <= Len(text)
                  /\ SubSeq(text, s + 1, s + Len(w)) = w}

Least(S) == CHOOSE x \in S : \A y \in S : x <= y

Greatest(S) == CHOOSE x \in S : \A y \in S : x >= y

\* dict.find_iter(text) of a LeftmostLongest automaton: the matches that do
\* not overlap, each the leftmost after the one before it and, among the
\* words that start there, the longest
RECURSIVE find_iter(_, _, _)
find_iter(dict, text, from) ==
    LET starts == {s \in from..(Len(text) - 1) : MatchesAt(dict, text, s) # {}}
    IN  IF starts = {} THEN <<>>
        ELSE LET start == Least(starts)
                 end == start + Greatest({Len(w) : w \in MatchesAt(dict, text, start)})
             IN  <<[start |-> start, end |-> end]>> \o find_iter(dict, text, end)

\* split: the loop over the matches from match i on, with its break
RECURSIVE cut_loop(_, _, _, _)
cut_loop(matches, i, pos, cuts) ==
    IF i > Len(matches) \/ pos # matches[i].start
    THEN [cuts |-> cuts, pos |-> pos]
    ELSE cut_loop(matches, i + 1, matches[i].end, Append(cuts, pos))

\* split: for pos in self.cuts.iter().rev(), the tokens pushed onto parts
RECURSIVE push_parts(_, _)
push_parts(text, cuts) ==
    IF cuts = <<>> THEN <<>>
    ELSE LET pos == cuts[Len(cuts)]
         IN  <<[text |-> SubSeq(text, pos + 1, Len(text))]>>
                 \o push_parts(SubSeq(text, 1, pos), SubSeq(cuts, 1, Len(cuts) - 1))

\* variant: the parts are filled without asking that the matches reach the
\* end of the text
split_NoEndCheck(st) ==
    LET text == st.tail.token.text
        cut == cut_loop(find_iter(st.dict, text, 0), 1, 0, <<>>)
    IN  [st EXCEPT !.cuts = cut.cuts,
                   !.parts = @ \o push_parts(SubSeq(text, 1, cut.pos), cut.cuts)]

\* SplitCompoundWordsTokenStream::split
split(st) ==
    LET text == st.tail.token.text
        cut == cut_loop(find_iter(st.dict, text, 0), 1, 0, <<>>)
    IN  [st EXCEPT !.cuts = cut.cuts,
                   !.parts = IF cut.pos = Len(text)
                             THEN @ \o push_parts(text, cut.cuts) ELSE @]

\* self.parts.pop()
pop(parts) == IF parts = <<>> THEN <<>> ELSE SubSeq(parts, 1, Len(parts) - 1)

\* SplitCompoundWordsTokenStream::token
token(st) == IF st.parts # <<>> THEN st.parts[Len(st.parts)] ELSE st.tail.token

\* SplitCompoundWords::transform(stream) on a stream of `left` tokens, none
\* of them read yet
transform(dict, left) ==
    [dict |-> dict, tail |-> [token |-> [text |-> <<>>], left |-> left, read |-> 0],
     cuts |-> <<>>, parts |-> <<>>, more |-> TRUE, emitted |-> <<>>]

\* the consumer calls advance() and, if it returns true, reads token();
\* next_text is the token the underlying stream moves to if it has one
Advance(next_text) ==
    /\ stream # NoStream
    /\ LET popped == [stream EXCEPT !.parts = pop(@)]
       IN  IF popped.parts # <<>>
           THEN stream' = [popped EXCEPT !.more = TRUE,
                                         !.emitted = Append(@, token(popped).text)]
           ELSE IF popped.tail.left = 0
           THEN stream' = [popped EXCEPT !.more = FALSE]
           ELSE LET moved == [popped EXCEPT !.tail = [token |-> [text |-> next_text],
                                                      left |-> @.left - 1,
                                                      read |-> @.read + 1]]
                    done == split(moved)
                IN  stream' = [done EXCEPT !.more = TRUE,
                                           !.emitted = <<token(done).text>>]
    /\ UNCHANGED <<compiled_relations, prog, store_arities, pc, body, ret_vars, ret,
                   relation_, seen_variables, serial_id, result>>

InitSplit ==
    /\ compiled_relations = EmptyRegistry
    /\ InitLocals
    /\ stream \in {transform(d, n) : d \in Dictionaries, n \in 0..MaxTokens}

NextSplit == \E next_text \in Texts : Advance(next_text)

SpecSplit == InitSplit /\ [][NextSplit]_vars

\* the longest word of the dictionary that text has at offset pos, if any
LongestAt(dict, text, pos) ==
    LET ws == MatchesAt(dict, text, pos)
    IN  IF ws = {} THEN <<>> ELSE CHOOSE w \in ws : \A v \in ws : Len(v) <= Len(w)

\* the consecutive longest matches of text from offset pos, as far as they go
RECURSIVE Decomposition(_, _, _)
Decomposition(dict, text, pos) ==
    LET w == LongestAt(dict, text, pos)
    IN  IF w = <<>> THEN <<>> ELSE <<w>> \o Decomposition(dict, text, pos + Len(w))

RECURSIVE Concat(_)
Concat(ws) == IF ws = <<>> THEN <<>> ELSE ws[1] \o Concat(Tail(ws))

\* text is fully decomposed: at least one match, the matches end at its end
Decomposes(dict, text) ==
    /\ Decomposition(dict, text, 0) # <<>>
    /\ Concat(Decomposition(dict, text, 0)) = text

\* what the stream is to emit for a token of the underlying stream
Emits(dict, text) ==
    IF Decomposes(dict, text) THEN Decomposition(dict, text, 0) ELSE <<text>>

IsPrefix(a, b) == Len(a) <= Len(b) /\ SubSeq(b, 1, Len(a)) = a

\* the underlying stream has given a token
TokenRead == stream # NoStream /\ stream.tail.read > 0

\* a step of advance() that goes to the underlying stream
TailAdvanceStep == pop(stream.parts) = <<>>

C16_AdvanceStep ==
    /\ (TokenRead /\ TailAdvanceStep) =>
          stream.emitted = Emits(stream.dict, stream.tail.token.text)
    /\ stream'.more =>
          /\ stream'.emitted # <<>>
          /\ IsPrefix(stream'.emitted, Emits(stream.dict, stream'.tail.token.text))
          /\ Len(stream'.emitted) =
                IF TailAdvanceStep THEN 1 ELSE Len(stream.emitted) + 1
    /\ ~stream'.more =>
          /\ stream.tail.left = 0
          /\ TailAdvanceStep
          /\ stream'.tail = stream.tail

\* C16: for every token of the underlying stream the split stream emits
\* either the token unchanged or, exactly when its text is fully decomposed
\* into consecutive leftmost-longest dictionary matches from offset 0 to its
\* end, the matched parts one per advance() from left to right (their
\* concatenation is the text); a token only partly covered is not split,
\* and advance() returns false only once the underlying stream is exhausted
\* and all parts were emitted.
C16_SplitStream == [][C16_AdvanceStep]_vars

\* the second token of a stream has been split in two parts, at offsets 0
\* and 2, and both parts have been read
C16_Witness ==
    /\ stream # NoStream
    /\ stream.tail.read = 2
    /\ Len(stream.emitted) = 2
    /\ stream.emitted = Emits(stream.dict, stream.tail.token.text)
    /\ stream.cuts = <<0, 2>>

\* the atom the loop over the body folded last, and the locals before it
LastAtom == body[Len(body)]

BeforeLast ==
    fold_body(compiled_relations, store_arities, SubSeq(body, 1, Len(body) - 1))

UnificationNodes(r) == {n \in Nodes(r) : n.kind = "Unification"}

\* C17: a unification atom on a variable already seen adds no binding and
\* no Unification node and is applied as a filter between the existing
\* binding and the expression, a set-membership test for the one-to-many
\* form and an equality test otherwise; on a new variable it adds a
\* Unification node over the plan so far whose binding comes last, after
\* the bindings its parent exposes, and the variable is seen from then on.
C17_UnificationAtom ==
    /\ \A i \in DOMAIN body :
          body[i].type = "Unification" => body[i].binding \in seen_variables
    /\ (pc = "body" /\ body # <<>> /\ LastAtom.type = "Unification") =>
          LET prev == BeforeLast
              atom == LastAtom
              test == ExprApply(IF atom.one_many_unif THEN "is_in" ELSE "eq",
                                <<ExprBinding(atom.binding), atom.expr>>)
          IN  IF atom.binding \in prev.seen
              THEN /\ seen_variables = prev.seen
                   /\ bindings_before_eliminate(ret) = bindings_before_eliminate(prev.ret)
                   /\ Cardinality(UnificationNodes(ret))
                         = Cardinality(UnificationNodes(prev.ret))
                   /\ test \in AllFilters(ret)
                   /\ AllFilters(ret) = AllFilters(prev.ret) \cup {test}
              ELSE /\ ret = unify(prev.ret, atom.binding, atom.expr, atom.one_many_unif)
                   /\ bindings_before_eliminate(ret)
                         = Append(bindings_after_eliminate(prev.ret), atom.binding)
                   /\ seen_variables = prev.seen \cup {atom.binding}

\* a one-to-many unification on a variable a scan has bound was folded as a
\* set-membership filter, after a unification that bound a new variable
C17_Witness ==
    /\ pc = "body"
    /\ Len(body) = 3
    /\ body[2].type = "Unification"
    /\ ret.kind = "Filter"
    /\ ret.parent.kind = "Unification"
    /\ LastAtom.type = "Unification"
    /\ LastAtom.one_many_unif
    /\ LastAtom.binding \in BeforeLast.seen
    /\ ret.filters[1].op = "is_in"

\* the plan in ret has been through eliminate_temp_vars
Eliminated == pc \in {"eliminated", "re_eliminated", "returned", "compiled"}

\* a plan as it was built: every elimination set empty
RECURSIVE AsBuilt(_)
AsBuilt(r) ==
    CASE r.kind = "Fixed" -> [r EXCEPT !.to_eliminate = {}]
      [] r.kind \in {"TempStore", "Stored"} -> r
      [] r.kind = "Join" ->
            [r EXCEPT !.to_eliminate = {}, !.left = AsBuilt(@), !.right = AsBuilt(@)]
      [] r.kind = "Reorder" -> [r EXCEPT !.relation = AsBuilt(@)]
      [] r.kind \in {"Filter", "Unification"} ->
            [r EXCEPT !.to_eliminate = {}, !.parent = AsBuilt(@)]

Exposed(r) == Range(bindings_after_eliminate(r))

\* the variables the expressions of a Filter or Unification node read
Reads(n) ==
    IF n.kind = "Filter" THEN FiltersBindings(n.filters) ELSE ExprBindings(n.expr)

\* C18: after eliminate_temp_vars on a plan built by the rule-body compiler,
\* every left key of every Join is exposed by its left child and every right
\* key by its right child, and every variable an expression of a Filter or
\* Unification node reads is exposed by the parent of that node if the
\* parent exposed it before the pass.
C18_ConsumedKept ==
    Eliminated =>
        \A n \in Nodes(ret) :
            /\ n.kind = "Join" =>
                  /\ Range(n.joiner.left_keys) \subseteq Exposed(n.left)
                  /\ Range(n.joiner.right_keys) \subseteq Exposed(n.right)
            /\ n.kind \in {"Filter", "Unification"} =>
                  Reads(n) \cap Exposed(AsBuilt(n.parent)) \subseteq Exposed(n.parent)

\* the pass went over a Filter that compares a variable of each side of a
\* keyed Join, for a head that names neither: the Filter eliminates both,
\* the Join below it keeps both
C18_Witness ==
    /\ Eliminated
    /\ ret_vars = <<>>
    /\ ret.kind = "Filter"
    /\ ret.parent.kind = "Join"
    /\ ret.parent.joiner.left_keys # <<>>
    /\ Cardinality(Reads(ret)) = 2
    /\ Reads(ret) \subseteq ret.to_eliminate
    /\ Reads(ret) \subseteq Exposed(ret.parent)

\* the binding a node adds itself, over those of the nodes below it
OwnBinding(n) == IF n.kind = "Unification" THEN {n.binding} ELSE {}

\* n is a node after eliminate_temp_vars(used) ran on it: it and the nodes
\* below it, each with the needed set the pass handed to it, expose only
\* needed bindings, own_kept setting a node's own binding aside
RECURSIVE DeadDropped(_, _, _)
DeadDropped(n, used, own_kept) ==
    /\ HasEliminateSet(n) =>
          (Exposed(n) \ (IF own_kept THEN OwnBinding(n) ELSE {})) \subseteq used
    /\ CASE n.kind \in {"Fixed", "TempStore", "Stored"} -> TRUE
         [] n.kind = "Join" ->
               /\ DeadDropped(n.left, JoinLeftUsed(n, used), own_kept)
               /\ DeadDropped(n.right, JoinRightUsed(n, used), own_kept)
         [] n.kind = "Reorder" -> DeadDropped(n.relation, used, own_kept)
         [] n.kind \in {"Filter", "Unification"} ->
               DeadDropped(n.parent, ParentUsed(n, used), own_kept)

\* eliminate_temp_vars has run on ret, no other call since
JustEliminated == pc \in {"eliminated", "re_eliminated"}

\* C19 (as the code has it): after eliminate_temp_vars(used) on a Fixed,
\* Join or Filter node every binding the node still exposes is in the needed
\* set passed to it; a Unification node drops the dead bindings of its
\* parent, and exposes its own new binding whether needed or not.
C19_DeadDropped ==
    JustEliminated => DeadDropped(ret, Range(ret_vars), TRUE)

\* C19 as stated: after eliminate_temp_vars(used) on a Fixed, Join, Filter
\* or Unification node every binding the node still exposes is in the needed
\* set passed to it.
C19_AllDeadDropped ==
    JustEliminated => DeadDropped(ret, Range(ret_vars), FALSE)

\* the pass ran for a head that names the variable of the Unification at
\* the root only: the Unification below it still exposes its own variable,
\* which is not needed, and the root is the node that drops it
C19_Witness ==
    /\ pc = "eliminated"
    /\ ret.kind = "Unification"
    /\ ret.parent.kind = "Unification"
    /\ ret_vars = <<ret.binding>>
    /\ ret.parent.binding \notin ParentUsed(ret, Range(ret_vars))
    /\ ret.parent.binding \in Exposed(ret.parent)
    /\ ret.to_eliminate = {ret.parent.binding}
    /\ Exposed(ret) = Range(ret_vars)

\* the variable references of an expression, each with the position it carries
RECURSIVE Refs(_)
Refs(e) ==
    CASE e.tag = "Binding" -> {e}
      [] e.tag = "Const" -> {}
      [] e.tag = "Apply" -> UNION {Refs(e.args[i]) : i \in DOMAIN e.args}

\* every reference of the expression carries the position of its variable in
\* the list of bindings
Carries(e, bindings) ==
    \A ref \in Refs(e) :
        /\ ref.var \in Range(bindings)
        /\ ref.tuple_pos = PositionOf(ref.var, bindings)

\* the variables the atoms before the i-th atom of the body bind
BoundBefore(i) ==
    UNION {IF body[j].type \in {"Rule", "Relation"} THEN Range(body[j].args)
           ELSE IF body[j].type = "Unification" THEN {body[j].binding}
           ELSE {} : j \in 1..(i - 1)}

\* every expression of the body reads only variables bound by earlier atoms
ReadsBound ==
    \A i \in DOMAIN body :
        body[i].type \in {"Predicate", "Unification"} =>
            ExprBindings(body[i].expr) \subseteq BoundBefore(i)

\* C20: after fill_binding_indices_and_compile on the plan of a rule, which
\* went through elimination, every variable reference inside a Filter or a
\* Unification expression carries the position of that variable in the
\* bindings_after_eliminate() of the node's parent, and every reference
\* inside a push-down filter of a Stored or TempStore scan carries its
\* position in the scan's own bindings; for the plan of a rule body whose
\* expressions read only variables bound by earlier atoms the pass does not
\* fail.
C20_IndexResolution ==
    /\ pc = "compiled" =>
          \A n \in Nodes(relation_) :
              /\ n.kind = "Filter" =>
                    \A i \in DOMAIN n.filters :
                        Carries(n.filters[i], bindings_after_eliminate(n.parent))
              /\ n.kind = "Unification" =>
                    Carries(n.expr, bindings_after_eliminate(n.parent))
              /\ n.kind \in {"Stored", "TempStore"} =>
                    \A i \in DOMAIN n.filters : Carries(n.filters[i], n.bindings)
    /\ (pc = "failed" /\ ReadsBound) => result.kind # "BadBinding"

\* x = 1, y = x, x < y compiled for the head [y]: the Unification of y reads
\* x at position 0 of its parent, and the Filter reads x and y at positions
\* 0 and 1 of the Unification below it, of which it exposes y only
C20_Witness ==
    /\ pc = "compiled"
    /\ ret_vars = <<2>>
    /\ relation_.kind = "Filter"
    /\ relation_.parent.kind = "Unification"
    /\ relation_.filters = <<ExprApply("lt", <<[ExprBinding(1) EXCEPT !.tuple_pos = 0],
                                               [ExprBinding(2) EXCEPT !.tuple_pos = 1]>>)>>
    /\ relation_.parent.expr = [ExprBinding(1) EXCEPT !.tuple_pos = 0]
    /\ bindings_after_eliminate(relation_) = <<2>>

\* how many times the expression stands in the list
Occurs(c, list) == Cardinality({i \in DOMAIN list : list[i] = c})

\* how many times the expression is attached in the plan, over all its nodes
RECURSIVE CountClause(_, _)
CountClause(r, c) ==
    CASE r.kind = "Fixed" -> 0
      [] r.kind \in {"TempStore", "Stored"} -> Occurs(c, r.filters)
      [] r.kind = "Reorder" -> CountClause(r.relation, c)
      [] r.kind = "Filter" -> Occurs(c, r.filters) + CountClause(r.parent, c)
      [] r.kind = "Unification" -> CountClause(r.parent, c)
      [] r.kind = "Join" -> CountClause(r.left, c) + CountClause(r.right, c)

\* out is filter(r, f) for a Join r: each clause of f is added once to the
\* side the claim names, nothing else is added or removed, and the Join keeps
\* its keys and its elimination set
PlacedOnce(r, f, out) ==
    LET j == IF out.kind = "Filter" THEN out.parent ELSE out
        top == IF out.kind = "Filter" THEN out.filters ELSE <<>>
        clauses == to_conjunction(f)
        GoesLeft(c) == ExprBindings(c) \subseteq Range(bindings_before_eliminate(r.left))
        GoesRight(c) ==
            /\ ~GoesLeft(c)
            /\ ExprBindings(c) \subseteq Range(bindings_before_eliminate(r.right))
        Stays(c) == ~GoesLeft(c) /\ ~GoesRight(c)
    IN  /\ j.kind = "Join"
        /\ j.joiner = r.joiner
        /\ j.to_eliminate = r.to_eliminate
        /\ out.kind = "Filter" <=> \E c \in Range(clauses) : Stays(c)
        /\ out.kind = "Filter" => out.to_eliminate = {}
        /\ \A c \in Range(clauses) \cup AllFilters(r) \cup AllFilters(out) :
              /\ CountClause(j.left, c) =
                     CountClause(r.left, c) + IF GoesLeft(c) THEN Occurs(c, clauses) ELSE 0
              /\ CountClause(j.right, c) =
                     CountClause(r.right, c) + IF GoesRight(c) THEN Occurs(c, clauses) ELSE 0
              /\ Occurs(c, top) = IF Stays(c) THEN Occurs(c, clauses) ELSE 0

\* C21: a filter applied to a Join is decomposed into its top-level
\* conjunctive clauses and every clause is placed exactly once: into the left
\* child if its variables are a subset of the left child's bindings (checked
\* first, so a clause without variables goes left), else into the right child
\* if a subset of the right child's bindings, else into a single Filter node
\* wrapping the rebuilt Join; that wrapper is created only when at least one
\* clause remains, and the Join's key pairs and elimination set are unchanged.
\* Checked for every predicate a body can apply next to every Join-rooted
\* plan a body builds.
C21_ClausesPlacedOnce ==
    (pc = "body" /\ ret.kind = "Join") =>
        \A atom \in PredicateAtoms(seen_variables) :
            PlacedOnce(ret, atom.expr, filter(ret, atom.expr))

\* x > 0 and y > 0 has been folded into a Join whose left child exposes x
\* only and whose right child exposes y: the first clause is attached once
\* on the left, the second once on the scan on the right, and the root is
\* still the Join
C21_Witness ==
    /\ pc = "body"
    /\ Len(body) = 3
    /\ body[3] = PredicateAtom(And(Gt(1), Gt(2)))
    /\ ret.kind = "Join"
    /\ ret.joiner.left_keys # <<>>
    /\ CountClause(ret.left, Gt(1)) = 1
    /\ CountClause(ret.left, Gt(2)) = 0
    /\ ret.right.filters = <<Gt(2)>>

\* the right children of the Joins met from the root of a plan down its left
\* side, the innermost Join first
RECURSIVE JoinRights(_)
JoinRights(r) ==
    CASE r.kind \in {"Fixed", "TempStore", "Stored"} -> <<>>
      [] r.kind = "Join" -> Append(JoinRights(r.left), r.right)
      [] r.kind = "Reorder" -> JoinRights(r.relation)
      [] r.kind \in {"Filter", "Unification"} -> JoinRights(r.parent)

\* the rule and relation applications of the body, in body order
ScanAtoms == SelectSeq(body, LAMBDA a : a.type \in {"Rule", "Relation"})

\* the node is the scan the atom was compiled to: its kind, its name, and at
\* each argument position the argument or a synthetic name
ScanOf(n, atom) ==
    /\ atom.type = "Rule" => n.kind = "TempStore" /\ n.storage_key = atom.name
    /\ atom.type = "Relation" =>
          n.kind = "Stored" /\ n.name = compiled_relations[atom.name].name
    /\ Len(n.bindings) = Len(atom.args)
    /\ \A i \in DOMAIN atom.args :
          n.bindings[i] = atom.args[i] \/ n.bindings[i] \notin Vars

\* the right children without the unit of the recovery join, if it is there
ScanRights(r) ==
    LET rights == JoinRights(r)
    IN  IF rights # <<>> /\ rights[Len(rights)] = unit
        THEN SubSeq(rights, 1, Len(rights) - 1) ELSE rights

\* C22: in every compiled plan each rule or relation atom of the body is the
\* right child of its own Join, in body order from the innermost Join
\* outwards, and the right child of every Join is a TempStore or Stored scan,
\* or the unit Fixed node of the recovery join, never a Join, Filter,
\* Unification or Reorder; join_type on a Join of a compiled plan is never
\* generic_mat_join and never the panic on a reordered right child.
C22_LeftDeep ==
    [](pc = "compiled" =>
        /\ Len(JoinRights(relation_)) = CountJoins(relation_)
        /\ Len(ScanRights(relation_)) = Len(ScanAtoms)
        /\ \A i \in DOMAIN ScanAtoms : ScanOf(ScanRights(relation_)[i], ScanAtoms[i])
        /\ \A j \in Joins(relation_) :
              /\ j.right.kind \in {"TempStore", "Stored"} \/ j.right = unit
              /\ join_type(j) \notin {"generic_mat_join", "panic: joining on reordered"})

\* a rule application, a unification and a stored-relation application
\* compiled for a head that drops the unified variable: the plan has the
\* TempStore and the Stored scan as right children, in that order, with the
\* Unification between the two Joins
C22_Witness ==
    /\ pc = "compiled"
    /\ Len(body) = 3
    /\ body[1].type = "Rule" /\ body[2].type = "Unification" /\ body[3].type = "Relation"
    /\ Len(JoinRights(relation_)) = 2
    /\ JoinRights(relation_)[1].kind = "TempStore"
    /\ JoinRights(relation_)[2].kind = "Stored"
    /\ \E j \in Joins(relation_) : j.left.kind = "Unification"

\* the compiled plan without the Reorder at its root, if it has one
UnderReorder ==
    IF relation_.kind = "Reorder" THEN relation_.relation ELSE relation_

\* C23: a compiled plan contains at most one Reorder node and, if present,
\* it is the root; it is present exactly when the bindings the plan exposes
\* after elimination equal the head variables as a set but differ from the
\* declared head list as a sequence, and its new_order is the declared head
\* list.
C23_ReorderAtRoot ==
    pc = "compiled" =>
        /\ \A n \in Nodes(UnderReorder) : n.kind # "Reorder"
        /\ relation_.kind = "Reorder" <=>
               /\ Range(bindings_after_eliminate(UnderReorder)) = Range(ret_vars)
               /\ bindings_after_eliminate(UnderReorder) # ret_vars
        /\ relation_.kind = "Reorder" => relation_.new_order = ret_vars

\* has_target[x, y] compiled for the head [y, x]: the Join exposes x, y and
\* is wrapped in a Reorder to y, x
C23_Witness ==
    /\ pc = "compiled"
    /\ ret_vars = <<2, 1>>
    /\ relation_.kind = "Reorder"
    /\ relation_.new_order = <<2, 1>>
    /\ relation_.relation.kind = "Join"
    /\ bindings_after_eliminate(relation_.relation) = <<1, 2>>

\* the Joins met from the root of a plan down its left side, innermost first
RECURSIVE SpineJoins(_)
SpineJoins(r) ==
    CASE r.kind \in {"Fixed", "TempStore", "Stored"} -> <<>>
      [] r.kind = "Join" -> Append(SpineJoins(r.left), r)
      [] r.kind = "Reorder" -> SpineJoins(r.relation)
      [] r.kind \in {"Filter", "Unification"} -> SpineJoins(r.parent)

IsScanAtom(i) == body[i].type \in {"Rule", "Relation"}

\* the argument at position p of the i-th atom of the body is an occurrence
\* of a variable seen before it
IsKey(i, p) ==
    /\ IsScanAtom(i)
    /\ p \in DOMAIN body[i].args
    /\ body[i].args[p] \in BoundBefore(i) \cup {body[i].args[q] : q \in 1..(p - 1)}

\* the occurrences of seen variables in the rule and relation atoms
KeyOccurrences ==
    {o \in (DOMAIN body) \X (1..MaxArity) : IsKey(o[1], o[2])}

\* how many of the occurrences occ come before this one in body order
KeyIndex(occ, i, p) ==
    Cardinality({o \in occ : o[1] < i \/ (o[1] = i /\ o[2] < p)})

\* the positions of the seen variables among the arguments of the i-th atom,
\* in argument order
KeyPositions(occ, i) ==
    SelectSeq([p \in DOMAIN body[i].args |-> p], LAMBDA p : <<i, p>> \in occ)

\* of the Joins of a plan, the one made for the i-th atom of the body, a rule
\* or relation atom
JoinOfAtom(joins, i) ==
    joins[Cardinality({a \in 1..i : IsScanAtom(a)})]

\* the plan of the body folded so far, or the compiled plan of the rule
PlanOfBody == IF pc = "compiled" THEN relation_ ELSE ret

\* C24: within one rule body, each argument occurrence of an already-seen
\* variable in a rule or relation atom is replaced on the scan side by a
\* fresh name **k, where k counts such occurrences from 0 in body order
\* (predicates and unifications do not consume the counter, which starts at
\* 0 with the body); the other arguments keep their names; the synthetic
\* names within one plan are pairwise distinct, and the i-th left key of a
\* Join is paired with the synthetic name standing at the same argument
\* occurrence.
C24_SyntheticKeys ==
    [](pc \in {"body", "compiled"} =>
        LET occ == KeyOccurrences
            joins == SpineJoins(PlanOfBody)
        IN  /\ serial_id = Cardinality(occ)
            /\ \A i \in DOMAIN body : IsScanAtom(i) =>
                  LET j == JoinOfAtom(joins, i)
                      args == body[i].args
                      keys == KeyPositions(occ, i)
                  IN  /\ \A p \in DOMAIN args :
                            j.right.bindings[p] =
                                IF <<i, p>> \in occ
                                THEN gen_symb(KeyIndex(occ, i, p)) ELSE args[p]
                      /\ Len(j.joiner.left_keys) = Len(keys)
                      /\ Len(j.joiner.right_keys) = Len(keys)
                      /\ \A m \in DOMAIN keys :
                            /\ j.joiner.left_keys[m] = args[keys[m]]
                            /\ j.joiner.right_keys[m] = j.right.bindings[keys[m]]
            /\ \A o1, o2 \in occ :
                  o1 # o2 =>
                      JoinOfAtom(joins, o1[1]).right.bindings[o1[2]] #
                          JoinOfAtom(joins, o2[1]).right.bindings[o2[2]])

\* three applications of the same variable: the second atom scans it as **0,
\* the third, after it, as **1 next to a new variable, each Join keyed on it
C24_Witness ==
    /\ pc = "body"
    /\ Len(body) = 3
    /\ \A i \in 1..3 : IsScanAtom(i)
    /\ ret.left.right.bindings = <<gen_symb(0)>>
    /\ ret.right.bindings = <<gen_symb(1), 2>>
    /\ ret.joiner = [left_keys |-> <<1>>, right_keys |-> <<gen_symb(1)>>]
    /\ serial_id = 2

\* stratified_magic_compile has returned Ok(compiled)
ProgramCompiled == pc \in {"compiled", "explained"} /\ "compiled" \in DOMAIN result

\* the compiled stratum of the i-th stratum of the input
CompiledStratum(i) == result.compiled[Len(prog) + 1 - i]

\* C25: stratified_magic_compile returns one compiled stratum per input
\* stratum, in the reverse of the input stratum order; each compiled stratum
\* has exactly the relation names of its input stratum as keys, an ordinary
\* rule set has one CompiledRule per input clause in clause order with the
\* clause's aggregation list copied, and a fixed-rule entry is passed through
\* unchanged.
C25_StrataReversed ==
    ProgramCompiled =>
        /\ Len(result.compiled) = Len(prog)
        /\ \A i \in DOMAIN prog :
              /\ DOMAIN CompiledStratum(i) = DOMAIN prog[i]
              /\ \A n \in DOMAIN prog[i] :
                    IF IsFixed(prog[i][n])
                    THEN CompiledStratum(i)[n] = Fixed(prog[i][n].fixed)
                    ELSE /\ ~IsFixed(CompiledStratum(i)[n])
                         /\ Len(CompiledStratum(i)[n].rules) = Len(prog[i][n].rules)
                         /\ \A k \in DOMAIN prog[i][n].rules :
                               /\ CompiledStratum(i)[n].rules[k].aggr =
                                      prog[i][n].rules[k].aggr
                               /\ CompiledStratum(i)[n].rules[k].relation =
                                      RuleOutcome(<<i, n, k>>).relation

\* a program of two strata compiled: the fixed rule of its last stratum is in
\* the first compiled stratum, and is_parent, of its first stratum, has two
\* compiled rules in the last one, the first plain, the second with the meet
\* aggregation of its clause and a different plan
C25_Witness ==
    /\ pc = "compiled"
    /\ Len(prog) = 2
    /\ IsFixed(result.compiled[1]["reachable"])
    /\ DOMAIN result.compiled[2] = {"is_parent"}
    /\ Len(result.compiled[2]["is_parent"].rules) = 2
    /\ result.compiled[2]["is_parent"].rules[1].aggr = <<NoAggr, NoAggr>>
    /\ result.compiled[2]["is_parent"].rules[2].aggr = <<NoAggr, Aggr(TRUE)>>
    /\ result.compiled[2]["is_parent"].rules[1].relation #
           result.compiled[2]["is_parent"].rules[2].relation

\* ---------------------------------------------------------------- C26
Classified == pc = "classified" /\ "aggr_kind" \in DOMAIN result

\* the aggregation list aggr_kind reads: that of the first clause
FirstAggr == result.ruleset.rules[1].aggr

Aggregated(aggr) == {i \in DOMAIN aggr : aggr[i].is_some}

\* C26: the aggr_kind of a compiled rule set is None exactly when no head
\* position of its first clause is aggregated; Meet exactly when some
\* position is aggregated, every aggregation is a meet aggregation and no
\* unaggregated position follows an aggregated one; Normal in every other
\* case; and the aggr_kind of a fixed rule is None
C26_AggrKind ==
    Classified =>
        IF IsFixed(result.ruleset) THEN result.aggr_kind = "None"
        ELSE LET none == Aggregated(FirstAggr) = {}
                 meet == /\ Aggregated(FirstAggr) # {}
                         /\ \A i \in Aggregated(FirstAggr) : FirstAggr[i].is_meet
                         /\ \A i \in Aggregated(FirstAggr), j \in DOMAIN FirstAggr :
                               j > i => j \in Aggregated(FirstAggr)
             IN  /\ result.aggr_kind = "None" <=> none
                 /\ result.aggr_kind = "Meet" <=> meet
                 /\ result.aggr_kind = "Normal" <=> ~none /\ ~meet

\* a rule set of two clauses whose first clause has a meet aggregation
\* followed by an unaggregated position, and whose second aggregates nothing
C26_Witness ==
    /\ Classified
    /\ ~IsFixed(result.ruleset)
    /\ Len(result.ruleset.rules) = 2
    /\ FirstAggr = <<Aggr(TRUE), NoAggr>>
    /\ result.ruleset.rules[2].aggr = <<NoAggr, NoAggr>>
    /\ result.aggr_kind = "Normal"

\* ---------------------------------------------------------------- C27
\* relation_exists has just replied
Looked == pc = "idle" /\ result.kind = "Exists"

\* C27: after any sequence of create_relation calls relation_exists(name)
\* replies true exactly when get_relation(name) succeeds, that is exactly
\* for the names that were created
C27_LookupsAgree ==
    Looked => (result.exists <=> Lookup(result.name).kind = "Ok")

\* relation_exists has denied a name that was created and that get_relation
\* finds
C27_Denied ==
    /\ Looked
    /\ ~result.exists
    /\ result.name \in DOMAIN compiled_relations
    /\ Lookup(result.name).kind = "Ok"

\* ---------------------------------------------------------------- C28
\* compile_query has returned an error
QueryFailed == pc = "failed" /\ "query" \in DOMAIN result

\* C28: whenever compile_query returns an error, the set of registered
\* relations after the call equals the set before the call
C28_FailureKeepsRegistry ==
    [][QueryFailed' => DOMAIN compiled_relations' = DOMAIN compiled_relations]_vars

\* a query asking to create a relation has failed at a rule body over an
\* unregistered relation, and the relation it asked for is registered: the
\* call registered it, since on a registered name create_relation would
\* have been the one to fail
C28_CreatedThenFailed ==
    /\ QueryFailed
    /\ result.kind = "StoredRelationNotFound"
    /\ result.query.op = "Create"
    /\ result.query.name \in DOMAIN compiled_relations

\* ---------------------------------------------------------------- C29
\* the plans a and b have the same shape, and node by node the same
\* to_eliminate set and the same bindings_after_eliminate()
RECURSIVE SameElimination(_, _)
SameElimination(a, b) ==
    /\ a.kind = b.kind
    /\ HasEliminateSet(a) => a.to_eliminate = b.to_eliminate
    /\ bindings_after_eliminate(a) = bindings_after_eliminate(b)
    /\ CASE a.kind \in {"Fixed", "TempStore", "Stored"} -> TRUE
         [] a.kind = "Join" ->
               /\ SameElimination(a.left, b.left)
               /\ SameElimination(a.right, b.right)
         [] a.kind = "Reorder" -> SameElimination(a.relation, b.relation)
         [] a.kind \in {"Filter", "Unification"} ->
               SameElimination(a.parent, b.parent)

\* the recovery path has just run: the plan of the first pass is the left
\* child of the new Join and has been through eliminate_temp_vars again
RecoveryStep == pc = "eliminated" /\ pc' = "re_eliminated"

\* C29: eliminate_temp_vars applied with the same needed set a second time
\* to an eliminated plan leaves the to_eliminate set and the
\* bindings_after_eliminate() of every node as the first application left
\* them; so does the recovery path with the subtree it wraps
C29_Idempotent ==
    [][/\ JustEliminated' =>
              SameElimination(eliminate_temp_vars(ret', Range(ret_vars')), ret')
       /\ RecoveryStep => SameElimination(ret'.left, ret)]_vars

\* the recovery path has run on a plan with a Unification whose first pass
\* had marked bindings to eliminate
C29_Witness ==
    /\ pc = "re_eliminated"
    /\ ret.kind = "Join"
    /\ ret.left.kind = "Unification"
    /\ ret.left.to_eliminate # {}
    /\ eliminate_temp_vars(ret.left, Range(ret_vars)) = ret.left

\* ---------------------------------------------------------------- C30
\* the head check has failed: ret is the plan it looked at
HeadCheckFailed == pc = "failed" /\ result.kind \in {"UnboundSymbolInRuleHead", "Panic"}

\* C30: at the final head check the set of exposed bindings is a subset of
\* the set of head variables; so whenever the two sets differ a head variable
\* is missing, and taking the first element of the difference never fails
C30_ExposedWithinHead ==
    TailDone =>
        LET cur_ret_set == Range(bindings_after_eliminate(ret))
            ret_vars_set == Range(ret_vars)
        IN  /\ cur_ret_set \subseteq ret_vars_set
            /\ HeadCheckFailed =>
                  /\ ret_vars_set \ cur_ret_set # {}
                  /\ result.kind = "UnboundSymbolInRuleHead"
                  /\ result.name \in ret_vars_set \ cur_ret_set

\* the head check has failed on a plan wrapped by the recovery Join over a
\* Unification whose own binding no head variable names
C30_Witness ==
    /\ HeadCheckFailed
    /\ ret.kind = "Join"
    /\ ret.left.kind = "Unification"
    /\ ret.left.binding \notin Range(ret_vars)
    /\ ret.left.binding \in Range(bindings_after_eliminate(ret.left))
    /\ ret.left.binding \notin Range(bindings_after_eliminate(ret))

====
